---- MODULE Spec2Model ----
(***************************************************************************)
(* The ticket routes of railway-support-lab (src/routes/tickets.js) over   *)
(* the support_tickets table (src/db.js).  Every request handler is one    *)
(* action: it validates, builds one parameterized statement, hands it to   *)
(* the store and answers.                                                  *)
(***************************************************************************)
EXTENDS Integers, Sequences, FiniteSets, TLC

(***************************************************************************)
(* Bounds of the model.                                                    *)
(***************************************************************************)
MaxTickets == 2
MaxClock == 1
MaxRows == 2
MaxSeconds == 6
MaxInflight == 2
MaxChecks == 2
MaxProbes == 22
MaxIssued == 21

(***************************************************************************)
(* JavaScript / SQL values, tagged with their type.  Str is a string whose *)
(* characters are never inspected, Txt a string given as its characters.   *)
(***************************************************************************)
Undefined == <<"undefined">>
Null == <<"null">>
NaN == <<"nan">>
Str(s) == <<"str", s>>
Txt(cs) == <<"txt", cs>>
Num(n) == <<"num", n>>

IsNum(v) == v[1] = "num"

\* JavaScript truthiness: undefined, null, NaN, "" and 0 are falsy.
Truthy(v) ==
  CASE v[1] = "str" -> v[2] # ""
    [] v[1] = "txt" -> Len(v[2]) > 0
    [] v[1] = "num" -> v[2] # 0
    [] OTHER -> FALSE

\* JavaScript `v || d`.
OrElse(v, d) == IF Truthy(v) THEN v ELSE d

Whitespace == {" "}
DigitVal == ("0" :> 0) @@ ("1" :> 1) @@ ("2" :> 2) @@ ("3" :> 3) @@ ("4" :> 4) @@
            ("5" :> 5) @@ ("6" :> 6) @@ ("7" :> 7) @@ ("8" :> 8) @@ ("9" :> 9)
Digits == DOMAIN DigitVal

RECURSIVE TrimStart(_)
TrimStart(cs) ==
  IF cs # <<>> /\ Head(cs) \in Whitespace THEN TrimStart(Tail(cs)) ELSE cs

RECURSIVE TrimEnd(_)
TrimEnd(cs) ==
  IF cs # <<>> /\ cs[Len(cs)] \in Whitespace
    THEN TrimEnd(SubSeq(cs, 1, Len(cs) - 1))
    ELSE cs

\* String.prototype.trim
Trim(cs) == TrimEnd(TrimStart(cs))

\* The value of the longest prefix of digits of cs, after acc.
RECURSIVE DigitsValue(_, _)
DigitsValue(cs, acc) ==
  IF cs # <<>> /\ Head(cs) \in Digits
    THEN DigitsValue(Tail(cs), acc * 10 + DigitVal[Head(cs)])
    ELSE acc

\* JavaScript parseInt: leading whitespace and one sign are skipped, the
\* leading digits are read, whatever follows them is ignored; NaN when no
\* digit is found.  A number is returned as it is.
ParseInt(v) ==
  CASE v[1] = "num" -> v
    [] v[1] = "txt" ->
         LET s == TrimStart(v[2])
             neg == s # <<>> /\ Head(s) = "-"
             body == IF s # <<>> /\ Head(s) \in {"-", "+"} THEN Tail(s) ELSE s
         IN  IF body = <<>> \/ Head(body) \notin Digits
               THEN NaN
               ELSE Num(IF neg THEN 0 - DigitsValue(body, 0) ELSE DigitsValue(body, 0))
    [] OTHER -> NaN

(***************************************************************************)
(* The support_tickets table.                                              *)
(***************************************************************************)
validSeverities == {"low", "medium", "high", "critical"}
validStatuses == {"open", "in_progress", "resolved", "escalated"}

\* Array.prototype.includes over an array of strings (strict equality).
Includes(set, v) == v[1] = "str" /\ v[2] \in set

\* The columns whose type is INTEGER: a parameter bound to one of them must
\* be an integer or NULL, or the statement fails.
IntegerColumns == {"id", "customer_id", "resolution_time"}

\* The row a bare INSERT produces: SERIAL id, the column DEFAULTs, NULL for
\* the rest.
DefaultRow(id, t) ==
  [id |-> Num(id), title |-> Null, description |-> Null,
   severity |-> Str("low"), status |-> Str("open"),
   customer_id |-> Null, assigned_to |-> Null, resolution_time |-> Null,
   created_at |-> Num(t), updated_at |-> Num(t)]

(***************************************************************************)
(* The store gateway: one parameterized statement at a time.  A statement  *)
(* is its text, kept as the clauses the handler assembled (each column     *)
(* with the number of its placeholder), and the array of bound parameters. *)
(***************************************************************************)
Range(f) == {f[i] : i \in DOMAIN f}

Clause(col, ph) == [col |-> col, ph |-> ph]

NoClauses == <<>>

\* The value bound to placeholder $ph.
Bound(stmt, ph) == stmt.params[ph]

\* PostgreSQL rejects the statement: NaN bound to an INTEGER column or to
\* LIMIT/OFFSET, or a negative LIMIT/OFFSET.
StatementFails(stmt) ==
  \/ \E i \in DOMAIN stmt.sets :
       stmt.sets[i].col \in IntegerColumns /\ Bound(stmt, stmt.sets[i].ph) = NaN
  \/ \E i \in DOMAIN stmt.where :
       stmt.where[i].col \in IntegerColumns /\ Bound(stmt, stmt.where[i].ph) = NaN
  \/ \E ph \in {stmt.limitPh, stmt.offsetPh} \ {0} :
       \/ Bound(stmt, ph) = NaN
       \/ IsNum(Bound(stmt, ph)) /\ Bound(stmt, ph)[2] < 0

\* WHERE c1 = $a AND c2 = $b ...: a NULL column equals nothing.
Matches(row, stmt) ==
  \A i \in DOMAIN stmt.where :
    /\ row[stmt.where[i].col] # Null
    /\ row[stmt.where[i].col] = Bound(stmt, stmt.where[i].ph)

\* The columns a statement assigns, each with its bound value, applied to a row.
ApplySets(row, stmt) ==
  [c \in DOMAIN row |->
     IF \E i \in DOMAIN stmt.sets : stmt.sets[i].col = c
       THEN Bound(stmt, stmt.sets[CHOOSE i \in DOMAIN stmt.sets : stmt.sets[i].col = c].ph)
       ELSE row[c]]

\* INSERT ... RETURNING *: the next value of the id sequence, DEFAULT NOW()
\* for both timestamps, the listed columns from the parameters.
InsertRow(stmt, id, t) == ApplySets(DefaultRow(id, t), stmt)

\* An UPDATE that leaves updated_at alone.
UpdateRowsUntouched(stmt, tks, t) ==
  [i \in DOMAIN tks |-> IF Matches(tks[i], stmt) THEN ApplySets(tks[i], stmt) ELSE tks[i]]

\* UPDATE ... SET ..., updated_at = NOW() WHERE ...: the table afterwards.
UpdateRows(stmt, tks, t) ==
  [i \in DOMAIN tks |->
     IF Matches(tks[i], stmt)
       THEN [ApplySets(tks[i], stmt) EXCEPT !.updated_at = Num(t)]
       ELSE tks[i]]

\* The subsequence of the rows of a table that satisfy a predicate.
RECURSIVE SelectSeq2(_, _)
SelectSeq2(tks, keep) ==
  IF tks = <<>> THEN <<>>
  ELSE IF Head(tks).id \in keep
         THEN <<Head(tks)>> \o SelectSeq2(Tail(tks), keep)
         ELSE SelectSeq2(Tail(tks), keep)

MatchingIds(stmt, tks) == {tks[i].id : i \in {j \in DOMAIN tks : Matches(tks[j], stmt)}}

\* ORDER BY created_at DESC: every arrangement of the rows that is sorted
\* by creation time, newest first; rows created at the same time come in
\* whatever order the store produces.
OrderedDesc(rows) ==
  {p \in [1..Len(rows) -> Range(rows)] :
     /\ \A i, j \in 1..Len(rows) : i # j => p[i] # p[j]
     /\ \A i, j \in 1..Len(rows) : i < j => p[i].created_at[2] >= p[j].created_at[2]}

\* OFFSET o LIMIT l applied to an ordered result.
Window(rows, o, l) ==
  IF o >= Len(rows) THEN <<>>
  ELSE SubSeq(rows, o + 1, IF o + l < Len(rows) THEN o + l ELSE Len(rows))

\* The possible results of SELECT * FROM support_tickets WHERE ... [ORDER BY
\* created_at DESC LIMIT $l OFFSET $o].
SelectResults(stmt, tks) ==
  LET matched == SelectSeq2(tks, MatchingIds(stmt, tks))
  IN  IF stmt.limitPh = 0
        THEN {matched}
        ELSE {Window(p, Bound(stmt, stmt.offsetPh)[2], Bound(stmt, stmt.limitPh)[2]) :
                p \in OrderedDesc(matched)}

Stmt(kind, sets, where, limitPh, offsetPh, params) ==
  [kind |-> kind, sets |-> sets, where |-> where,
   limitPh |-> limitPh, offsetPh |-> offsetPh, params |-> params]

(***************************************************************************)
(* State.                                                                  *)
(*   tickets  the rows of support_tickets, in insertion order              *)
(*   nextId   the next value of the id sequence                            *)
(*   now      the store's clock, the value of NOW()                        *)
(*   req      the request handled last                                     *)
(*   res      the response it got: HTTP status and JSON body               *)
(*   stmts    the statements that request handed to the store              *)
(*   prev     the rows of support_tickets before that request              *)
(*   env      process.env, read once into config                           *)
(*   service  how the external service behaves at the moment               *)
(*   uptime   the time since the process started, in milliseconds          *)
(*   calls    the requests waiting for the external service, oldest first  *)
(*   apiHistory  the outcomes of the status checks, newest first           *)
(*   hprev    apiHistory before the last step                              *)
(*   fetches  the exchanges with the external service that request made    *)
(*   s3       the bucket: its objects, and the commands the last storage    *)
(*            request sent to it                                           *)
(*   schema   the relations of the database: tables and indexes            *)
(*   pool     the connection pool: clients checked out, and whether ended  *)
(*   proc     the process: its lifecycle state, requests in flight, the     *)
(*            time spent draining, the exit status                         *)
(*   updates  the UPDATE statements handed to the store and not yet        *)
(*            committed, those committed, in commit order, and the table   *)
(*            before the first of them                                     *)
(***************************************************************************)
VARIABLES tickets, nextId, now, req, res, stmts, prev,
          env, service, uptime, calls, apiHistory, hprev, fetches,
          s3, schema, pool, proc, updates

vars == <<tickets, nextId, now, req, res, stmts, prev,
          env, service, uptime, calls, apiHistory, hprev, fetches,
          s3, schema, pool, proc, updates>>

gateway == <<env, service, uptime, calls, apiHistory, hprev, fetches>>
platform == <<s3, schema, pool, proc, updates>>

NoRequest == [op |-> "none"]
NoResponse == [code |-> 0]

Response(code, body) == [code |-> code, body |-> body]
Error(msg) == [error |-> msg]

\* The process has started: nothing waits for the external service and no
\* status check has been made.
Started(e, sv) ==
  /\ env = e
  /\ service = sv
  /\ uptime = 0
  /\ calls = <<>>
  /\ apiHistory = <<>>
  /\ hprev = <<>>
  /\ fetches = <<>>

NoEnv ==
  [API_TIMEOUT |-> Undefined, AWS_ACCESS_KEY_ID |-> Undefined,
   AWS_SECRET_ACCESS_KEY |-> Undefined, AWS_S3_BUCKET_NAME |-> Undefined]

\* The relations initializeDatabase creates.
Index(name, column) == [name |-> name, table |-> "support_tickets", column |-> column]

NoSchema == [tables |-> <<>>, indexes |-> <<>>]

Initialized ==
  [tables |-> <<"support_tickets">>,
   indexes |-> <<Index("idx_status", "status"), Index("idx_severity", "severity")>>]

\* No UPDATE is waiting for the store.
NoUpdates == [base |-> <<>>, pending |-> <<>>, committed |-> <<>>]

\* new Pool(...): no client is checked out and the pool has not been ended.
NewPool == [borrowed |-> 0, ended |-> FALSE]

\* The process at its entry: nothing probed, nothing initialized, no
\* connection accepted, no signal received, not exited.
Cold ==
  [state |-> "Starting", probe |-> "pending", store |-> "unknown",
   schemaInit |-> "pending", accepting |-> FALSE, inflight |-> 0,
   signal |-> "none", draining |-> 0, fault |-> FALSE, exit |-> Null]

\* The process once the probe and the schema initialization have succeeded.
Ready ==
  [Cold EXCEPT !.state = "Serving", !.probe = "succeeded", !.store = "reachable",
               !.schemaInit = "succeeded", !.accepting = TRUE]

\* The process is serving on an initialized database and an empty bucket.
Serving ==
  /\ s3 = [objects |-> {}, sent |-> <<>>]
  /\ schema = Initialized
  /\ pool = NewPool
  /\ proc = Ready
  /\ updates = NoUpdates

Init ==
  /\ tickets = <<>>
  /\ nextId = 1
  /\ now = 0
  /\ req = NoRequest
  /\ res = NoResponse
  /\ stmts = <<>>
  /\ prev = <<>>
  /\ Started(NoEnv, "up")
  /\ Serving

\* The store's clock advances.
Tick ==
  /\ now < MaxClock
  /\ now' = now + 1
  /\ UNCHANGED <<tickets, nextId, req, res, stmts, prev>>
  /\ UNCHANGED <<gateway, platform>>

\* db.query: the statement is rejected when the store is unreachable or the
\* statement fails, and the handler's catch answers 500.
QueryThrows(stmt, dbOk) == ~dbOk \/ StatementFails(stmt)

\* A handler that answers without reaching the store.
Reject(r, code, msg) ==
  /\ req' = r
  /\ res' = Response(code, Error(msg))
  /\ stmts' = <<>>
  /\ prev' = tickets
  /\ UNCHANGED <<tickets, nextId, now>>

\* A handler whose statement left the table as it was.
Answer(r, stmt, response) ==
  /\ req' = r
  /\ res' = response
  /\ stmts' = <<stmt>>
  /\ prev' = tickets
  /\ UNCHANGED <<tickets, nextId, now>>

(***************************************************************************)
(* POST /api/tickets                                                       *)
(***************************************************************************)
\* The title check without the trim.
TitleMissingUntrimmed(title) == ~Truthy(title)

\* !title || title.trim().length === 0
TitleMissing(title) == ~Truthy(title) \/ Len(Trim(title[2])) = 0

\* A create that validates no severity.
SeverityNeverRejected(severity) == FALSE

\* severity && !validSeverities.includes(severity)
SeverityRejected(severity) == Truthy(severity) /\ ~Includes(validSeverities, severity)

\* An INSERT that also takes the status from the request body.
InsertStatementWithStatus(body) ==
  Stmt("insert",
       <<Clause("title", 1), Clause("description", 2), Clause("severity", 3),
         Clause("customer_id", 4), Clause("assigned_to", 5), Clause("status", 6)>>,
       NoClauses, 0, 0,
       <<body.title,
         OrElse(body.description, Null),
         OrElse(body.severity, Str("low")),
         OrElse(body.customer_id, Null),
         OrElse(body.assigned_to, Null),
         OrElse(body.status, Str("open"))>>)

InsertStatement(body) ==
  Stmt("insert",
       <<Clause("title", 1), Clause("description", 2), Clause("severity", 3),
         Clause("customer_id", 4), Clause("assigned_to", 5)>>,
       NoClauses, 0, 0,
       <<body.title,
         OrElse(body.description, Null),
         OrElse(body.severity, Str("low")),
         OrElse(body.customer_id, Null),
         OrElse(body.assigned_to, Null)>>)

CreateTicket(body, dbOk) ==
  LET r == [op |-> "POST /api/tickets", body |-> body]
      stmt == InsertStatement(body)
      row == InsertRow(stmt, nextId, now)
  IN  IF TitleMissing(body.title)
        THEN Reject(r, 400, "Title is required")
      ELSE IF SeverityRejected(body.severity)
        THEN Reject(r, 400, "Invalid severity. Must be one of: low, medium, high, critical")
      ELSE IF QueryThrows(stmt, dbOk)
        THEN Answer(r, stmt, Response(500, Error("Failed to create ticket")))
      ELSE /\ Len(tickets) < MaxTickets
           /\ tickets' = Append(tickets, row)
           /\ nextId' = nextId + 1
           /\ req' = r
           /\ res' = Response(201, row)
           /\ stmts' = <<stmt>>
           /\ prev' = tickets
           /\ UNCHANGED now

(***************************************************************************)
(* PATCH /api/tickets/:id                                                  *)
(***************************************************************************)
\* status !== undefined && !validStatuses.includes(status)
StatusRejected(status) == status # Undefined /\ ~Includes(validStatuses, status)

\* updates.push(`col = $${paramCount++}`); params.push(value)
PushUpdate(acc, col, value) ==
  [updates |-> Append(acc.updates, Clause(col, acc.paramCount)),
   params |-> Append(acc.params, value),
   paramCount |-> acc.paramCount + 1]

\* A SET list that names the four fields whatever the body supplies, with
\* NULL for a field the body leaves out.
PatchUpdatesEveryField(body) ==
  LET a0 == [updates |-> <<>>, params |-> <<>>, paramCount |-> 1]
      a1 == PushUpdate(a0, "status", IF body.status # Undefined THEN body.status ELSE Null)
      a2 == PushUpdate(a1, "severity",
                       IF body.severity # Undefined THEN body.severity ELSE Null)
      a3 == PushUpdate(a2, "assigned_to",
                       IF body.assigned_to # Undefined THEN body.assigned_to ELSE Null)
      a4 == PushUpdate(a3, "resolution_time",
                       IF body.resolution_time # Undefined
                         THEN ParseInt(body.resolution_time) ELSE Null)
  IN  a4

\* The SET clauses and parameters of the supplied fields, in the order the
\* handler looks at them.
PatchUpdates(body) ==
  LET a0 == [updates |-> <<>>, params |-> <<>>, paramCount |-> 1]
      a1 == IF body.status # Undefined THEN PushUpdate(a0, "status", body.status) ELSE a0
      a2 == IF body.severity # Undefined THEN PushUpdate(a1, "severity", body.severity) ELSE a1
      a3 == IF body.assigned_to # Undefined
              THEN PushUpdate(a2, "assigned_to", body.assigned_to) ELSE a2
      a4 == IF body.resolution_time # Undefined
              THEN PushUpdate(a3, "resolution_time", ParseInt(body.resolution_time)) ELSE a3
  IN  a4

UpdateStatement(id, body) ==
  LET a == PatchUpdates(body)
  IN  Stmt("update", a.updates, <<Clause("id", a.paramCount)>>, 0, 0,
           Append(a.params, ParseInt(id)))

\* A handler that writes the other supplied fields before it looks at the
\* status.
UpdateTicketValidatingLate(id, body, dbOk) ==
  LET r == [op |-> "PATCH /api/tickets/:id", id |-> id, body |-> body]
      early == UpdateStatement(id, [body EXCEPT !.status = Undefined])
      stmt == UpdateStatement(id, body)
      after == UpdateRows(stmt, tickets, now)
      rows == SelectSeq2(after, MatchingIds(stmt, tickets))
  IN  IF Len(PatchUpdates(body).updates) = 0
        THEN Reject(r, 400, "No valid fields to update")
      ELSE IF StatusRejected(body.status)
        THEN /\ tickets' = IF Len(early.sets) = 0 \/ QueryThrows(early, dbOk)
                             THEN tickets
                             ELSE UpdateRows(early, tickets, now)
             /\ req' = r
             /\ res' = Response(400, Error("Invalid status. Must be one of: open, in_progress, resolved, escalated"))
             /\ stmts' = <<>>
             /\ prev' = tickets
             /\ UNCHANGED <<nextId, now>>
      ELSE IF QueryThrows(stmt, dbOk)
        THEN Answer(r, stmt, Response(500, Error("Failed to update ticket")))
      ELSE IF Len(rows) = 0
        THEN Answer(r, stmt, Response(404, Error("Ticket not found")))
      ELSE /\ tickets' = after
           /\ req' = r
           /\ res' = Response(200, rows[1])
           /\ stmts' = <<stmt>>
           /\ prev' = tickets
           /\ UNCHANGED <<nextId, now>>

\* A handler that answers with the row as it was before the update.
UpdateTicketStaleRow(id, body, dbOk) ==
  LET r == [op |-> "PATCH /api/tickets/:id", id |-> id, body |-> body]
      stmt == UpdateStatement(id, body)
      after == UpdateRows(stmt, tickets, now)
      rows == SelectSeq2(tickets, MatchingIds(stmt, tickets))
  IN  IF StatusRejected(body.status)
        THEN Reject(r, 400, "Invalid status. Must be one of: open, in_progress, resolved, escalated")
      ELSE IF Len(PatchUpdates(body).updates) = 0
        THEN Reject(r, 400, "No valid fields to update")
      ELSE IF QueryThrows(stmt, dbOk)
        THEN Answer(r, stmt, Response(500, Error("Failed to update ticket")))
      ELSE IF Len(rows) = 0
        THEN Answer(r, stmt, Response(404, Error("Ticket not found")))
      ELSE /\ tickets' = after
           /\ req' = r
           /\ res' = Response(200, rows[1])
           /\ stmts' = <<stmt>>
           /\ prev' = tickets
           /\ UNCHANGED <<nextId, now>>

UpdateTicket(id, body, dbOk) ==
  LET r == [op |-> "PATCH /api/tickets/:id", id |-> id, body |-> body]
      stmt == UpdateStatement(id, body)
      after == UpdateRows(stmt, tickets, now)
      rows == SelectSeq2(after, MatchingIds(stmt, tickets))
  IN  IF StatusRejected(body.status)
        THEN Reject(r, 400, "Invalid status. Must be one of: open, in_progress, resolved, escalated")
      ELSE IF Len(PatchUpdates(body).updates) = 0
        THEN Reject(r, 400, "No valid fields to update")
      ELSE IF QueryThrows(stmt, dbOk)
        THEN Answer(r, stmt, Response(500, Error("Failed to update ticket")))
      ELSE IF Len(rows) = 0
        THEN Answer(r, stmt, Response(404, Error("Ticket not found")))
      ELSE /\ tickets' = after
           /\ req' = r
           /\ res' = Response(200, rows[1])
           /\ stmts' = <<stmt>>
           /\ prev' = tickets
           /\ UNCHANGED <<nextId, now>>

(***************************************************************************)
(* GET /api/tickets/:id                                                    *)
(***************************************************************************)
\* A lookup that forgets its WHERE clause.
SelectByIdUnfiltered(id) ==
  Stmt("select", NoClauses, NoClauses, 0, 0, <<ParseInt(id)>>)

SelectByIdStatement(id) ==
  Stmt("select", NoClauses, <<Clause("id", 1)>>, 0, 0, <<ParseInt(id)>>)

GetTicket(id, dbOk) ==
  LET r == [op |-> "GET /api/tickets/:id", id |-> id]
      stmt == SelectByIdStatement(id)
  IN  IF QueryThrows(stmt, dbOk)
        THEN Answer(r, stmt, Response(500, Error("Failed to get ticket")))
      ELSE \E rows \in SelectResults(stmt, tickets) :
             IF Len(rows) = 0
               THEN Answer(r, stmt, Response(404, Error("Ticket not found")))
               ELSE Answer(r, stmt, Response(200, rows[1]))

(***************************************************************************)
(* GET /api/tickets                                                        *)
(***************************************************************************)
DefaultLimit == 50
DefaultOffset == 0

\* A destructuring default: it applies to undefined only.
Default(v, d) == IF v = Undefined THEN d ELSE v

\* A filter pushed without advancing the placeholder counter.
PushFilterSameNumber(acc, col, value) ==
  [clauses |-> Append(acc.clauses, Clause(col, acc.paramCount)),
   params |-> Append(acc.params, value),
   paramCount |-> acc.paramCount]

\* query += ` AND col = $${paramCount++}`; params.push(value)
PushFilter(acc, col, value) ==
  [clauses |-> Append(acc.clauses, Clause(col, acc.paramCount)),
   params |-> Append(acc.params, value),
   paramCount |-> acc.paramCount + 1]

\* The WHERE clauses and parameters of the filters the handler applies, in
\* the order it looks at them.
ListFilters(query) ==
  LET a0 == [clauses |-> <<>>, params |-> <<>>, paramCount |-> 1]
      a1 == IF Truthy(query.status) THEN PushFilter(a0, "status", query.status) ELSE a0
      a2 == IF Truthy(query.severity) THEN PushFilter(a1, "severity", query.severity) ELSE a1
      a3 == IF Truthy(query.customer_id)
              THEN PushFilter(a2, "customer_id", ParseInt(query.customer_id)) ELSE a2
      a4 == IF Truthy(query.assigned_to)
              THEN PushFilter(a3, "assigned_to", query.assigned_to) ELSE a3
  IN  a4

\* A list statement whose LIMIT and OFFSET placeholders are exchanged.
ListStatementSwapped(query) ==
  LET a == ListFilters(query)
  IN  Stmt("select", NoClauses, a.clauses, a.paramCount + 1, a.paramCount,
           a.params \o <<ParseInt(Default(query.limit, Num(DefaultLimit))),
                         ParseInt(Default(query.offset, Num(DefaultOffset)))>>)

ListStatement(query) ==
  LET a == ListFilters(query)
  IN  Stmt("select", NoClauses, a.clauses, a.paramCount, a.paramCount + 1,
           a.params \o <<ParseInt(Default(query.limit, Num(DefaultLimit))),
                         ParseInt(Default(query.offset, Num(DefaultOffset)))>>)

\* A list handler whose count is the size of the table.
ListTicketsCountingAll(query, dbOk) ==
  LET r == [op |-> "GET /api/tickets", query |-> query]
      stmt == ListStatement(query)
  IN  IF QueryThrows(stmt, dbOk)
        THEN Answer(r, stmt, Response(500, Error("Failed to list tickets")))
      ELSE \E rows \in SelectResults(stmt, tickets) :
             Answer(r, stmt, Response(200, [count |-> Len(tickets), tickets |-> rows]))

ListTickets(query, dbOk) ==
  LET r == [op |-> "GET /api/tickets", query |-> query]
      stmt == ListStatement(query)
  IN  IF QueryThrows(stmt, dbOk)
        THEN Answer(r, stmt, Response(500, Error("Failed to list tickets")))
      ELSE \E rows \in SelectResults(stmt, tickets) :
             Answer(r, stmt, Response(200, [count |-> Len(rows), tickets |-> rows]))

(***************************************************************************)
(* GET /api/tickets/api/stats (registered as '/api/stats')                 *)
(***************************************************************************)
\* ORDER BY on a text column: the strings the tickets can carry, in the
\* order the store's collation gives them.
Collation ==
  <<"bogus", "critical", "escalated", "high", "in_progress", "low", "medium",
    "open", "resolved">>

Rank(v) == CHOOSE i \in DOMAIN Collation : Collation[i] = v[2]

\* ORDER BY status, severity
GroupBefore(g, h) ==
  \/ Rank(g.status) < Rank(h.status)
  \/ g.status = h.status /\ Rank(g.severity) < Rank(h.severity)

\* The mean sum / n, kept as its exact fraction.
Mean(sum, n) == <<"avg", sum, n>>

RECURSIVE SumOfTimes(_)
SumOfTimes(rows) ==
  IF rows = {} THEN 0
  ELSE LET t == CHOOSE t \in rows : TRUE
       IN  t.resolution_time[2] + SumOfTimes(rows \ {t})

\* An AVG that takes a NULL for zero.
GroupRowAveragingNulls(g, rows) ==
  LET members == {t \in rows : t.status = g.status /\ t.severity = g.severity}
      timed == {t \in members : t.resolution_time # Null}
  IN  [status |-> g.status, severity |-> g.severity,
       count |-> Num(Cardinality(members)),
       avg_resolution_time |-> Mean(SumOfTimes(timed), Cardinality(members))]

\* One row of the result: COUNT(*) counts the rows of the group, AVG skips
\* the NULLs and is NULL when nothing is left.
GroupRow(g, rows) ==
  LET members == {t \in rows : t.status = g.status /\ t.severity = g.severity}
      timed == {t \in members : t.resolution_time # Null}
  IN  [status |-> g.status, severity |-> g.severity,
       count |-> Num(Cardinality(members)),
       avg_resolution_time |->
         IF timed = {} THEN Null ELSE Mean(SumOfTimes(timed), Cardinality(timed))]

\* SELECT status, severity, COUNT(*), AVG(resolution_time) FROM
\* support_tickets GROUP BY status, severity ORDER BY status, severity
StatsResult(tks) ==
  LET rows == Range(tks)
      groups == {[status |-> t.status, severity |-> t.severity] : t \in rows}
      n == Cardinality(groups)
      order == CHOOSE p \in [1..n -> groups] :
                 \A i, j \in 1..n : i < j => GroupBefore(p[i], p[j])
  IN  [i \in 1..n |-> GroupRow(order[i], rows)]

StatsStatement == Stmt("stats", NoClauses, NoClauses, 0, 0, <<>>)

GetStats(dbOk) ==
  LET r == [op |-> "GET /api/tickets/api/stats"]
  IN  IF QueryThrows(StatsStatement, dbOk)
        THEN Answer(r, StatsStatement, Response(500, Error("Failed to get statistics")))
      ELSE Answer(r, StatsStatement,
                  Response(200, [statistics |-> StatsResult(tickets)]))

(***************************************************************************)
(* The requests the clients send.                                          *)
(***************************************************************************)
NoBody ==
  [title |-> Undefined, description |-> Undefined, severity |-> Undefined,
   status |-> Undefined, customer_id |-> Undefined, assigned_to |-> Undefined]

GoodTitle == Txt(<<" ", "a", " ">>)

CreateBodies ==
  {[NoBody EXCEPT !.title = t] : t \in {Undefined, Txt(<<>>), Txt(<<" ">>), GoodTitle}}
  \cup {[NoBody EXCEPT !.title = t, !.severity = Str("high")] : t \in {Txt(<<" ", " ">>)}}
  \cup {[NoBody EXCEPT !.title = GoodTitle, !.severity = v] : v \in {Str(""), Str("bogus")}}
  \cup {[NoBody EXCEPT !.title = GoodTitle, !.severity = Str("high"),
                       !.status = Str("resolved"), !.description = Str("d"),
                       !.customer_id = Num(7), !.assigned_to = Str("bob")]}

NoPatch ==
  [status |-> Undefined, severity |-> Undefined, assigned_to |-> Undefined,
   resolution_time |-> Undefined]

PatchBodies ==
  {NoPatch,
   [NoPatch EXCEPT !.status = Str("resolved"), !.resolution_time = Txt(<<"5">>)],
   [NoPatch EXCEPT !.severity = Str("bogus")],
   [NoPatch EXCEPT !.status = Str("bogus")],
   [NoPatch EXCEPT !.status = Str("bogus"), !.severity = Str("high"),
                   !.assigned_to = Str("bob"), !.resolution_time = Txt(<<"5">>)],
   [NoPatch EXCEPT !.resolution_time = Txt(<<"x">>)]}

IdInputs == {Txt(<<"1">>), Txt(<<"2">>), Txt(<<"9">>), Txt(<<"1", "x">>), Txt(<<"x">>)}

NoQuery ==
  [status |-> Undefined, severity |-> Undefined, customer_id |-> Undefined,
   assigned_to |-> Undefined, limit |-> Undefined, offset |-> Undefined]

ListQueries ==
  {q \in [status : {Undefined, Str("open")},
          severity : {Undefined, Str("high")},
          customer_id : {Undefined, Txt(<<"7">>)},
          assigned_to : {Undefined, Str("bob")},
          limit : {Undefined, Txt(<<"1">>)},
          offset : {Undefined, Txt(<<"1">>)}] :
     /\ q.offset # Undefined => q.severity = Undefined /\ q.customer_id = Undefined
     /\ (q.limit # Undefined \/ q.offset # Undefined) =>
          q.customer_id = Undefined /\ q.assigned_to = Undefined}
  \cup {[NoQuery EXCEPT !.status = Str("")],
        [NoQuery EXCEPT !.customer_id = Txt(<<"x">>)],
        [NoQuery EXCEPT !.limit = Txt(<<"0">>)],
        [NoQuery EXCEPT !.limit = Txt(<<"-", "1">>)],
        [NoQuery EXCEPT !.limit = Txt(<<"2">>), !.offset = Txt(<<"x">>)]}

Idle == req = NoRequest

\* The response has been sent and the request is over.
Finish ==
  /\ ~Idle
  /\ req' = NoRequest
  /\ res' = NoResponse
  /\ stmts' = <<>>
  /\ prev' = tickets
  /\ fetches' = <<>>
  /\ hprev' = apiHistory
  /\ UNCHANGED <<tickets, nextId, now>>
  /\ UNCHANGED <<env, service, uptime, calls, apiHistory>>
  /\ UNCHANGED platform

(***************************************************************************)
(* The router: a request goes to the first route, in the order the routes  *)
(* were registered, whose method and path pattern match it.                *)
(***************************************************************************)
Param(name) == <<"param", name>>

ApiSegment == Txt(<<"a", "p", "i">>)
StatsSegment == Txt(<<"s", "t", "a", "t", "s">>)

Route(method, path, handler) == [method |-> method, path |-> path, handler |-> handler]

Routes ==
  <<Route("GET", <<>>, "list"),
    Route("GET", <<Param("id")>>, "get"),
    Route("POST", <<>>, "create"),
    Route("PATCH", <<Param("id")>>, "update"),
    Route("GET", <<ApiSegment, StatsSegment>>, "stats")>>

\* A pattern matches a path of as many segments, a ':name' segment
\* matching any segment.
PathMatches(pattern, path) ==
  /\ Len(pattern) = Len(path)
  /\ \A i \in DOMAIN pattern : pattern[i][1] = "param" \/ pattern[i] = path[i]

Dispatch(method, path) ==
  LET hits == {i \in DOMAIN Routes :
                 Routes[i].method = method /\ PathMatches(Routes[i].path, path)}
  IN  IF hits = {} THEN "none"
      ELSE Routes[CHOOSE i \in hits : \A j \in hits : i <= j].handler

\* The paths requested below the router's mount point /api/tickets.
IdPaths == {<<id>> : id \in IdInputs}

GetPaths == {<<>>, <<StatsSegment>>, <<ApiSegment, StatsSegment>>} \cup IdPaths

\* The routes of the tickets router, each taking the next request.
PostTickets ==
  /\ Idle
  /\ Dispatch("POST", <<>>) = "create"
  /\ \E body \in CreateBodies, dbOk \in BOOLEAN : CreateTicket(body, dbOk)
  /\ UNCHANGED <<gateway, platform>>

PatchTicketsId ==
  /\ Idle
  /\ \E path \in IdPaths :
       /\ Dispatch("PATCH", path) = "update"
       /\ \E body \in PatchBodies, dbOk \in BOOLEAN : UpdateTicket(path[1], body, dbOk)
  /\ UNCHANGED <<gateway, platform>>

GetTicketsId ==
  /\ Idle
  /\ \E path \in GetPaths :
       /\ Dispatch("GET", path) = "get"
       /\ \E dbOk \in BOOLEAN : GetTicket(path[1], dbOk)
  /\ UNCHANGED <<gateway, platform>>

GetTickets ==
  /\ Idle
  /\ \E path \in GetPaths :
       /\ Dispatch("GET", path) = "list"
       /\ \E query \in ListQueries, dbOk \in BOOLEAN : ListTickets(query, dbOk)
  /\ UNCHANGED <<gateway, platform>>

GetTicketsApiStats ==
  /\ Idle
  /\ \E path \in GetPaths :
       /\ Dispatch("GET", path) = "stats"
       /\ \E dbOk \in BOOLEAN : GetStats(dbOk)
  /\ UNCHANGED <<gateway, platform>>

ClockTick == Idle /\ Tick

Next ==
  \/ ClockTick
  \/ PostTickets
  \/ PatchTicketsId
  \/ GetTicketsId
  \/ GetTickets
  \/ GetTicketsApiStats
  \/ Finish

Spec == Init /\ [][Next]_vars

(***************************************************************************)
(* The statistics over the tables that creates and partial updates leave   *)
(* behind: up to MaxRows tickets, each with a status, a severity and a     *)
(* resolution time or none.                                                *)
(***************************************************************************)
StoredRows ==
  [status : {Str("open"), Str("resolved")},
   severity : {Str("low"), Str("high"), Str("bogus")},
   resolution_time : {Null, Num(3), Num(5)}]

StoredRow(id, r) ==
  [DefaultRow(id, 0) EXCEPT !.status = r.status, !.severity = r.severity,
                            !.resolution_time = r.resolution_time]

StoredTables ==
  UNION {{[i \in 1..n |-> StoredRow(i, f[i])] : f \in [1..n -> StoredRows]} :
           n \in 0..MaxRows}

InitStats ==
  /\ tickets \in StoredTables
  /\ nextId = Len(tickets) + 1
  /\ now = 0
  /\ req = NoRequest
  /\ res = NoResponse
  /\ stmts = <<>>
  /\ prev = tickets
  /\ Started(NoEnv, "up")
  /\ Serving

NextStats ==
  \/ GetTicketsApiStats
  \/ Finish

SpecStats == InitStats /\ [][NextStats]_vars

(***************************************************************************)
(* Configuration (config.js) and the passing of time.                      *)
(***************************************************************************)
\* parseInt(process.env.API_TIMEOUT || '5000')
Config ==
  [apiTimeout |-> ParseInt(OrElse(env.API_TIMEOUT, Txt(<<"5", "0", "0", "0">>)))[2]]

Envs == {NoEnv, [NoEnv EXCEPT !.API_TIMEOUT = Txt(<<"2", "0", "0", "0">>)]}

\* The instants the model looks at: every full second up to MaxSeconds.
Instants == {n * 1000 : n \in 0..MaxSeconds}

(***************************************************************************)
(* The external service, as fetch sees it.  A fetch resolves with a        *)
(* response, rejects with a network error, or rejects with an AbortError   *)
(* once the handler's timer has run out and aborted it.                    *)
(***************************************************************************)
Services == {"up", "failing", "unreachable", "stalled"}

Responded(status) ==
  [kind |-> "response", status |-> status, ok |-> status >= 200 /\ status < 300]

Rejected(name, message) == [kind |-> "error", name |-> name, message |-> message]

AbortError == Rejected("AbortError", "The user aborted a request.")
FetchError == Rejected("FetchError", "request failed")

\* A request waiting for its fetch: when the fetch started, the delay of
\* the timer armed for it (0 when no timer is armed) and what the handler
\* holds meanwhile.
Fetching(op, timeout, data) ==
  [op |-> op, since |-> uptime, timeout |-> timeout, data |-> data]

\* setTimeout(() => controller.abort(), timeout): the timer has run out.
TimerDue(c) == c.timeout # 0 /\ uptime - c.since >= c.timeout

\* What the service does with a request for /status/<requested>.
ServiceOutcomes(requested) ==
  CASE service = "up" -> {Responded(requested)}
    [] service = "failing" -> {Responded(503)}
    [] service = "unreachable" -> {FetchError}
    [] OTHER -> {}

FetchOutcomes(c, requested) ==
  ServiceOutcomes(requested) \cup (IF TimerDue(c) THEN {AbortError} ELSE {})

\* The exchange a settled fetch leaves behind.
Exchange(url, c, outcome) ==
  [url |-> url, since |-> c.since, until |-> uptime, timeout |-> c.timeout,
   outcome |-> outcome]

Without(cs, i) == SubSeq(cs, 1, i - 1) \o SubSeq(cs, i + 1, Len(cs))

\* A handler answers: res.status(code).json(body).
Answered(r, response, statements, exchanges) ==
  /\ req' = r
  /\ res' = response
  /\ stmts' = statements
  /\ fetches' = exchanges
  /\ prev' = tickets
  /\ hprev' = apiHistory
  /\ UNCHANGED <<tickets, nextId, now, env, service, uptime>>
  /\ UNCHANGED platform

\* No request is waiting for the external service.
Quiet == calls = <<>>

\* A handler starts a fetch and waits.
Awaiting(c) ==
  /\ calls' = Append(calls, c)
  /\ hprev' = apiHistory
  /\ UNCHANGED <<tickets, nextId, now, req, res, stmts, prev>>
  /\ UNCHANGED <<env, service, uptime, apiHistory, fetches>>
  /\ UNCHANGED platform

\* A second passes, unless a timer has run out and its callback comes first.
Elapse ==
  /\ Idle
  /\ \A i \in DOMAIN calls : ~TimerDue(calls[i])
  /\ \E t \in Instants :
       /\ t > uptime
       /\ \A u \in Instants : u > uptime => t <= u
       /\ uptime' = t
  /\ hprev' = apiHistory
  /\ UNCHANGED <<tickets, nextId, now, req, res, stmts, prev>>
  /\ UNCHANGED <<env, service, calls, apiHistory, fetches>>
  /\ UNCHANGED platform

\* The external service starts to behave otherwise.
ServiceChanges ==
  /\ Idle
  /\ service' \in Services \ {service}
  /\ hprev' = apiHistory
  /\ UNCHANGED <<tickets, nextId, now, req, res, stmts, prev>>
  /\ UNCHANGED <<env, uptime, calls, apiHistory, fetches>>
  /\ UNCHANGED platform

(***************************************************************************)
(* GET /health                                                             *)
(***************************************************************************)
\* process.uptime(), in seconds.
ProcessUptime == uptime \div 1000

\* A liveness check that probes the external service on its way.
GetHealthProbing ==
  /\ Idle
  /\ Answered([op |-> "GET /health"],
              Response(200, [status |-> "healthy", uptime |-> ProcessUptime]),
              <<>>,
              <<Exchange("/status/200", Fetching("GET /health", 0, <<>>), Responded(200))>>)
  /\ UNCHANGED <<calls, apiHistory>>

GetHealth ==
  /\ Idle
  /\ Answered([op |-> "GET /health"],
              Response(200, [status |-> "healthy", uptime |-> ProcessUptime]),
              <<>>, <<>>)
  /\ UNCHANGED <<calls, apiHistory>>

(***************************************************************************)
(* GET /health/full                                                        *)
(***************************************************************************)
HealthStatement == Stmt("SELECT 1 as health_check", NoClauses, NoClauses, 0, 0, <<>>)

\* What db.query may resolve with: the one row of the SELECT, or the empty
\* result the handler provides for.
HealthRows == {<<[health_check |-> Num(1)]>>, <<>>}

HealthProbeTimeout == 3000

\* healthStatus after the database check.
DatabaseChecked(dbOk, rows) ==
  IF QueryThrows(HealthStatement, dbOk)
    THEN [status |-> "degraded", uptime |-> ProcessUptime, database |-> "unhealthy"]
    ELSE [status |-> "healthy", uptime |-> ProcessUptime,
          database |-> IF Len(rows) > 0 THEN "healthy" ELSE "unhealthy"]

\* A check that lets a failed probe degrade the aggregate status.
HealthFullResponseStrict(h, outcome) ==
  LET externalApi == IF outcome.kind = "response" /\ outcome.ok
                       THEN "healthy" ELSE "unhealthy"
      status == IF externalApi = "healthy" THEN h.status ELSE "degraded"
  IN  Response(IF status = "healthy" THEN 200 ELSE 503,
               [status |-> status, uptime |-> h.uptime,
                checks |-> [database |-> h.database, externalApi |-> externalApi]])

\* healthStatus after the external check, and the status code it maps to.
HealthFullResponse(h, outcome) ==
  LET externalApi == IF outcome.kind = "response" /\ outcome.ok
                       THEN "healthy" ELSE "unhealthy"
  IN  Response(IF h.status = "healthy" THEN 200 ELSE 503,
               [status |-> h.status, uptime |-> h.uptime,
                checks |-> [database |-> h.database, externalApi |-> externalApi]])

GetHealthFull ==
  /\ Idle
  /\ Quiet
  /\ \E dbOk \in BOOLEAN, rows \in HealthRows :
       Awaiting(Fetching("GET /health/full", HealthProbeTimeout,
                         DatabaseChecked(dbOk, rows)))

HealthFullSettles ==
  /\ Idle
  /\ \E i \in DOMAIN calls :
       /\ calls[i].op = "GET /health/full"
       /\ \E outcome \in FetchOutcomes(calls[i], 200) :
            /\ Answered([op |-> "GET /health/full"],
                        HealthFullResponse(calls[i].data, outcome),
                        <<HealthStatement>>,
                        <<Exchange("/status/200", calls[i], outcome)>>)
            /\ calls' = Without(calls, i)
            /\ UNCHANGED apiHistory

(***************************************************************************)
(* GET /api/status and GET /api/status/history                             *)
(***************************************************************************)
MAX_HISTORY == 20

\* An addToHistory that never drops an entry.
AddToHistoryUnbounded(history, entry) == <<entry>> \o history

\* apiHistory.unshift(entry); if (apiHistory.length > MAX_HISTORY) apiHistory.pop()
AddToHistory(history, entry) ==
  LET unshifted == <<entry>> \o history
  IN  IF Len(unshifted) > MAX_HISTORY
        THEN SubSeq(unshifted, 1, Len(unshifted) - 1)
        ELSE unshifted

\* The number of status checks that have completed so far.
Completed == IF apiHistory = <<>> THEN 0 ELSE apiHistory[1].completion

\* statusData or errorData of a status check whose fetch has settled.
StatusData(c, outcome) ==
  IF outcome.kind = "response"
    THEN [status |-> IF outcome.ok THEN "operational" ELSE "degraded",
          statusCode |-> outcome.status,
          responseTime |-> uptime - c.since]
    ELSE [status |-> "error",
          error |-> IF outcome.name = "AbortError"
                      THEN "Request timeout" ELSE outcome.message,
          responseTime |-> uptime - c.since]

\* The entry kept of it: the classification and the success flag.  The
\* entry's timestamp is kept as the number of the completion, its
\* responseTime is left out.
HistoryEntry(outcome) ==
  IF outcome.kind = "response"
    THEN [status |-> IF outcome.ok THEN "operational" ELSE "degraded",
          statusCode |-> outcome.status,
          success |-> outcome.ok,
          completion |-> Completed + 1]
    ELSE [status |-> "error",
          error |-> IF outcome.name = "AbortError"
                      THEN "Request timeout" ELSE outcome.message,
          success |-> FALSE,
          completion |-> Completed + 1]

\* A status check that keeps no entry of a failed fetch.
StatusSettledQuietly(i, outcome) ==
  /\ Answered([op |-> "GET /api/status"],
              Response(IF outcome.kind = "response" THEN 200 ELSE 503,
                       StatusData(calls[i], outcome)),
              <<>>,
              <<Exchange("/status/200", calls[i], outcome)>>)
  /\ calls' = Without(calls, i)
  /\ apiHistory' = IF outcome.kind = "response"
                     THEN AddToHistory(apiHistory, HistoryEntry(outcome))
                     ELSE apiHistory

StatusSettled(i, outcome) ==
  /\ Answered([op |-> "GET /api/status"],
              Response(IF outcome.kind = "response" THEN 200 ELSE 503,
                       StatusData(calls[i], outcome)),
              <<>>,
              <<Exchange("/status/200", calls[i], outcome)>>)
  /\ calls' = Without(calls, i)
  /\ apiHistory' = AddToHistory(apiHistory, HistoryEntry(outcome))

\* The status checks waiting for their fetch.
ChecksWaiting == Cardinality({i \in DOMAIN calls : calls[i].op = "GET /api/status"})

StartStatusCheck(most) ==
  /\ Idle
  /\ Completed + ChecksWaiting < most
  /\ Awaiting(Fetching("GET /api/status", Config.apiTimeout, <<>>))

\* Status checks sent one after the other.
GetApiStatus == Quiet /\ StartStatusCheck(MaxChecks)

\* Status checks sent while others are still waiting.
GetApiStatusBurst == Len(calls) < MaxInflight /\ StartStatusCheck(MaxProbes)

ApiStatusSettles ==
  /\ Idle
  /\ \E i \in DOMAIN calls :
       /\ calls[i].op = "GET /api/status"
       /\ \E outcome \in FetchOutcomes(calls[i], 200) : StatusSettled(i, outcome)

GetApiStatusHistory ==
  /\ Idle
  /\ Answered([op |-> "GET /api/status/history"],
              Response(200, [count |-> Len(apiHistory), history |-> apiHistory]),
              <<>>, <<>>)
  /\ UNCHANGED <<calls, apiHistory>>

(***************************************************************************)
(* POST /api/status/notify/:ticketId                                       *)
(***************************************************************************)
TicketIds == {Txt(<<"1">>)}

PostApiStatusNotify ==
  /\ Idle
  /\ Quiet
  /\ \E ticketId \in TicketIds :
       Awaiting(Fetching("POST /api/status/notify/:ticketId", Config.apiTimeout,
                         [ticketId |-> ticketId, awaits |-> "fetch"]))

\* The catch block: 502 with the failure.
NotifyFailed(c, err) ==
  Response(502, [success |-> FALSE,
                 error |-> IF err.name = "AbortError" THEN "Webhook timeout"
                           ELSE err.message,
                 ticketId |-> c.data.ticketId])

\* fetch has settled: a rejection or a response that is not OK goes to the
\* catch block; after an OK response the timer is cleared and the handler
\* waits for response.json().
NotifyFetchSettles ==
  /\ Idle
  /\ \E i \in DOMAIN calls :
       LET c == calls[i]
       IN  /\ c.op = "POST /api/status/notify/:ticketId"
           /\ c.data.awaits = "fetch"
           /\ \E outcome \in FetchOutcomes(c, 200) :
                IF outcome.kind = "response" /\ outcome.ok
                  THEN /\ calls' = [calls EXCEPT ![i].timeout = 0,
                                                 ![i].data.awaits = "json"]
                       /\ hprev' = apiHistory
                       /\ UNCHANGED <<tickets, nextId, now, req, res, stmts, prev>>
                       /\ UNCHANGED <<env, service, uptime, apiHistory, fetches>>
                       /\ UNCHANGED platform
                ELSE /\ Answered([op |-> c.op, ticketId |-> c.data.ticketId],
                                 NotifyFailed(c,
                                   IF outcome.kind = "response"
                                     THEN Rejected("Error", "Webhook returned")
                                     ELSE outcome),
                                 <<>>,
                                 <<Exchange("/post", c, outcome)>>)
                     /\ calls' = Without(calls, i)
                     /\ UNCHANGED apiHistory

\* response.json() has settled: the body has arrived, or the connection
\* broke; nothing bounds the wait.
NotifyJsonSettles ==
  /\ Idle
  /\ \E i \in DOMAIN calls :
       LET c == calls[i]
       IN  /\ c.op = "POST /api/status/notify/:ticketId"
           /\ c.data.awaits = "json"
           /\ \E outcome \in ServiceOutcomes(200) :
                /\ Answered([op |-> c.op, ticketId |-> c.data.ticketId],
                            IF outcome.kind = "response"
                              THEN Response(200, [success |-> TRUE,
                                                  ticketId |-> c.data.ticketId,
                                                  response |-> "data"])
                              ELSE NotifyFailed(c, outcome),
                            <<>>,
                            <<Exchange("/post", c, outcome)>>)
                /\ calls' = Without(calls, i)
                /\ UNCHANGED apiHistory

(***************************************************************************)
(* GET /api/status/test/:code                                              *)
(***************************************************************************)
CodeInputs == {Txt(<<"2", "0", "0">>), Txt(<<"9", "9">>)}

\* statusCode < 100 || statusCode > 599
InvalidStatusCode(statusCode) ==
  IsNum(statusCode) /\ (statusCode[2] < 100 \/ statusCode[2] > 599)

GetApiStatusTest ==
  /\ Idle
  /\ Quiet
  /\ \E code \in CodeInputs :
       LET statusCode == ParseInt(code)
       IN  IF InvalidStatusCode(statusCode)
             THEN /\ Answered([op |-> "GET /api/status/test/:code", code |-> code],
                              Response(400, Error("Invalid status code")),
                              <<>>, <<>>)
                  /\ UNCHANGED <<calls, apiHistory>>
           ELSE Awaiting(Fetching("GET /api/status/test/:code", 0,
                                  [code |-> code, statusCode |-> statusCode]))

ApiStatusTestSettles ==
  /\ Idle
  /\ \E i \in DOMAIN calls :
       LET c == calls[i]
       IN  /\ c.op = "GET /api/status/test/:code"
           /\ \E outcome \in ServiceOutcomes(c.data.statusCode[2]) :
                /\ Answered([op |-> c.op, code |-> c.data.code],
                            IF outcome.kind = "response"
                              THEN Response(200, [requested |-> c.data.statusCode,
                                                  received |-> outcome.status,
                                                  ok |-> outcome.ok])
                              ELSE Response(500, Error(outcome.message)),
                            <<>>,
                            <<Exchange("/status/:code", c, outcome)>>)
                /\ calls' = Without(calls, i)
                /\ UNCHANGED apiHistory

(***************************************************************************)
(* The health and status routes at work, the requests that wait for the    *)
(* external service coming one after the other.                            *)
(***************************************************************************)
InitGateway ==
  /\ tickets = <<>>
  /\ nextId = 1
  /\ now = 0
  /\ req = NoRequest
  /\ res = NoResponse
  /\ stmts = <<>>
  /\ prev = <<>>
  /\ \E e \in Envs, sv \in Services : Started(e, sv)
  /\ Serving

NextGateway ==
  \/ GetHealth
  \/ GetHealthFull
  \/ HealthFullSettles
  \/ GetApiStatus
  \/ ApiStatusSettles
  \/ GetApiStatusHistory
  \/ PostApiStatusNotify
  \/ NotifyFetchSettles
  \/ NotifyJsonSettles
  \/ GetApiStatusTest
  \/ ApiStatusTestSettles
  \/ ServiceChanges
  \/ Elapse
  \/ Finish

SpecGateway == InitGateway /\ [][NextGateway]_vars

\* A burst of concurrent status checks, all within the same second, against
\* a service that keeps behaving the same way.
NextBurst ==
  \/ GetApiStatusBurst
  \/ ApiStatusSettles
  \/ GetApiStatusHistory
  \/ Finish

SpecBurst == InitGateway /\ [][NextBurst]_vars

(***************************************************************************)
(* GET /metrics, and the error db.query logs and rethrows.                  *)
(***************************************************************************)
\* err of a rejected pool.query: the store cannot be reached, or it
\* rejects the statement.
QueryError(stmt, dbOk) ==
  IF ~dbOk THEN [message |-> "connect ECONNREFUSED 127.0.0.1:5432"]
  ELSE IF \E ph \in {stmt.limitPh, stmt.offsetPh} \ {0} :
            IsNum(Bound(stmt, ph)) /\ Bound(stmt, ph)[2] < 0
  THEN [message |-> "LIMIT must not be negative"]
  ELSE [message |-> "invalid input syntax for type integer: \"NaN\""]

MetricsStatement == Stmt("metrics", NoClauses, NoClauses, 0, 0, <<>>)

\* parseFloat(avg).toFixed(2): the mean rounded to hundredths, kept as the
\* number of hundredths.
ToFixed2(sum, n) == <<"fixed2", (2 * 100 * sum + n) \div (2 * n)>>

RECURSIVE Latest(_)
Latest(rows) ==
  IF Len(rows) = 0 THEN Null
  ELSE LET rest == Latest(Tail(rows))
       IN  IF rest # Null /\ rest[2] > Head(rows).created_at[2] THEN rest
           ELSE Head(rows).created_at

\* The one row of the SELECT over support_tickets.
MetricsRow(rows) ==
  LET timed == {i \in DOMAIN rows : rows[i].resolution_time # Null}
  IN  [total_tickets |-> Len(rows),
       open_tickets |-> Cardinality({i \in DOMAIN rows : rows[i].status = Str("open")}),
       resolved_tickets |-> Cardinality({i \in DOMAIN rows : rows[i].status = Str("resolved")}),
       avg_resolution_time_minutes |->
         IF timed = {} THEN Null
         ELSE Mean(SumOfTimes({rows[i] : i \in timed}), Cardinality(timed)),
       last_ticket_created |-> Latest(rows)]

\* process.memoryUsage(), in megabytes.
MemoryUsages == {[used_mb |-> 12, total_mb |-> 20], [used_mb |-> 20, total_mb |-> 20]}

MetricsResponse(memory) ==
  LET stats == MetricsRow(tickets)
  IN  Response(200,
        [timestamp |-> Num(now),
         uptime_seconds |-> ProcessUptime,
         memory |-> memory,
         tickets |-> [total |-> stats.total_tickets,
                      open |-> stats.open_tickets,
                      resolved |-> stats.resolved_tickets,
                      avg_resolution_time_minutes |->
                        IF stats.avg_resolution_time_minutes # Null
                        THEN ToFixed2(stats.avg_resolution_time_minutes[2],
                                      stats.avg_resolution_time_minutes[3])
                        ELSE Null,
                      last_created |-> stats.last_ticket_created]])

\* A handler that answers with the message of the error it caught.
GetMetricsLeaking ==
  /\ Idle
  /\ \E dbOk \in BOOLEAN, memory \in MemoryUsages :
       IF QueryThrows(MetricsStatement, dbOk)
       THEN Answer([op |-> "GET /metrics"], MetricsStatement,
                   Response(500, Error(QueryError(MetricsStatement, dbOk).message)))
       ELSE Answer([op |-> "GET /metrics"], MetricsStatement, MetricsResponse(memory))
  /\ UNCHANGED <<gateway, platform>>

GetMetrics ==
  /\ Idle
  /\ \E dbOk \in BOOLEAN, memory \in MemoryUsages :
       IF QueryThrows(MetricsStatement, dbOk)
       THEN Answer([op |-> "GET /metrics"], MetricsStatement,
                   Response(500, Error("Failed to fetch metrics")))
       ELSE Answer([op |-> "GET /metrics"], MetricsStatement, MetricsResponse(memory))
  /\ UNCHANGED <<gateway, platform>>

\* The ticket routes and the metrics route over one store.
NextStore ==
  \/ PostTickets
  \/ PatchTicketsId
  \/ GetTicketsId
  \/ GetTickets
  \/ GetTicketsApiStats
  \/ GetMetrics
  \/ Finish

SpecStore == Init /\ [][NextStore]_vars

(***************************************************************************)
(* Concurrent partial updates: each handler builds its statement and       *)
(* awaits db.query; the store commits the statements handed to it one at a *)
(* time, in an order of its own.                                           *)
(***************************************************************************)
\* The bodies of the concurrent updates: two that set the status, one of
\* them with an assignee, and one that sets the severity.
ConcurrentPatches ==
  {[NoPatch EXCEPT !.status = Str("resolved")],
   [NoPatch EXCEPT !.status = Str("escalated"), !.assigned_to = Str("bob")],
   [NoPatch EXCEPT !.severity = Str("high")]}

ConcurrentIds == {Txt(<<"1">>), Txt(<<"2">>), Txt(<<"9">>)}

\* A store that keeps the first value written to a field.
CommitUpdateFirstWins(stmt, tks) ==
  [i \in DOMAIN tks |->
     IF Matches(tks[i], stmt)
     THEN [c \in DOMAIN tks[i] |->
             IF c = "updated_at" THEN Num(now)
             ELSE IF tks[i][c] # updates.base[i][c] THEN tks[i][c]
             ELSE ApplySets(tks[i], stmt)[c]]
     ELSE tks[i]]

\* The store executes one UPDATE: the row is locked, written and committed
\* as a whole.
CommitUpdate(stmt, tks) == UpdateRows(stmt, tks, now)

\* PATCH /api/tickets/:id up to its await: the request is validated and its
\* statement handed to the store.
PatchAwaitsStore ==
  /\ Len(updates.pending) + Len(updates.committed) < MaxInflight
  /\ \E id \in ConcurrentIds, body \in ConcurrentPatches :
       /\ ~StatusRejected(body.status)
       /\ Len(PatchUpdates(body).updates) > 0
       /\ updates' = [updates EXCEPT !.pending =
                        Append(@, [request |-> [op |-> "PATCH /api/tickets/:id",
                                                id |-> id, body |-> body],
                                   stmt |-> UpdateStatement(id, body)])]
  /\ UNCHANGED <<tickets, nextId, now, req, res, stmts, prev>>
  /\ UNCHANGED <<gateway, s3, schema, pool, proc>>

\* The store settles one of the statements handed to it and the handler
\* that awaited it answers: 500 when the store failed it, 404 when no row
\* matched, 200 with the row RETURNING gave.
StoreSettlesUpdate ==
  \E k \in DOMAIN updates.pending, dbOk \in BOOLEAN :
    LET entry == updates.pending[k]
        after == CommitUpdate(entry.stmt, tickets)
        rows == SelectSeq2(after, MatchingIds(entry.stmt, tickets))
    IN  /\ req' = entry.request
        /\ stmts' = <<entry.stmt>>
        /\ prev' = tickets
        /\ IF QueryThrows(entry.stmt, dbOk)
           THEN /\ res' = Response(500, Error("Failed to update ticket"))
                /\ tickets' = tickets
                /\ updates' = [updates EXCEPT !.pending = Without(@, k)]
           ELSE /\ res' = IF Len(rows) = 0
                          THEN Response(404, Error("Ticket not found"))
                          ELSE Response(200, rows[1])
                /\ tickets' = after
                /\ updates' = [updates EXCEPT !.pending = Without(@, k),
                                              !.committed = Append(@, entry.stmt)]
        /\ UNCHANGED <<nextId, now>>
        /\ UNCHANGED <<gateway, s3, schema, pool, proc>>

\* Two stored tickets, each open or resolved.
SharedRows ==
  {[status |-> Str("open"), severity |-> Str("low"), resolution_time |-> Null],
   [status |-> Str("resolved"), severity |-> Str("high"), resolution_time |-> Num(5)]}

SharedTables == {<<StoredRow(1, a), StoredRow(2, b)>> : a \in SharedRows, b \in SharedRows}

InitConcurrent ==
  /\ tickets \in SharedTables
  /\ nextId = Len(tickets) + 1
  /\ now = 1
  /\ req = NoRequest
  /\ res = NoResponse
  /\ stmts = <<>>
  /\ prev = tickets
  /\ Started(NoEnv, "up")
  /\ s3 = [objects |-> {}, sent |-> <<>>]
  /\ schema = Initialized
  /\ pool = NewPool
  /\ proc = Ready
  /\ updates = [NoUpdates EXCEPT !.base = tickets]

NextConcurrent ==
  \/ PatchAwaitsStore
  \/ StoreSettlesUpdate

SpecConcurrent == InitConcurrent /\ [][NextConcurrent]_vars

(***************************************************************************)
(* Object storage routes (routes/storage.js).  The bucket holds objects    *)
(* by key; every route runs requireS3 before its handler.                  *)
(***************************************************************************)
S3Config ==
  [accessKeyId |-> env.AWS_ACCESS_KEY_ID,
   secretAccessKey |-> env.AWS_SECRET_ACCESS_KEY,
   bucketName |-> env.AWS_S3_BUCKET_NAME]

\* A client that is built as soon as the bucket name and the access key id
\* are set.
s3ClientWithoutSecret ==
  IF Truthy(S3Config.accessKeyId) /\ Truthy(S3Config.bucketName)
  THEN <<"S3Client", S3Config.accessKeyId, S3Config.secretAccessKey>>
  ELSE Null

\* let s3Client = null; it is built only when the three settings are set.
s3Client ==
  IF /\ Truthy(S3Config.accessKeyId)
     /\ Truthy(S3Config.secretAccessKey)
     /\ Truthy(S3Config.bucketName)
  THEN <<"S3Client", S3Config.accessKeyId, S3Config.secretAccessKey>>
  ELSE Null

\* requireS3 answers instead of calling next().
S3Unavailable ==
  Response(503, [error |-> "Service Unavailable",
                 message |-> "S3 storage is not configured. Please check environment variables."])

\* The keys of the bucket, in the order the bucket lists them.
ObjectKeys == <<"a.txt", "b.txt">>
MaxKeys == 100

Command(name, input) == [command |-> name, input |-> input]

\* What s3Client.send may do: resolve, or throw the error of a bucket that
\* cannot be reached.
S3Outcomes == {"resolved", "refused"}
S3Refused == [name |-> "TimeoutError", message |-> "connect ETIMEDOUT"]
NoSuchKey == [name |-> "NoSuchKey", message |-> "The specified key does not exist."]

StorageFailed(title, error) ==
  Response(500, [error |-> title, message |-> error.message])

Stored(key) == \E o \in s3.objects : o.Key = key
ObjectAt(key) == CHOOSE o \in s3.objects : o.Key = key

\* response.Contents of ListObjectsV2: at most MaxKeys objects, by key.
RECURSIVE Contents(_)
Contents(i) ==
  IF i > Len(ObjectKeys) THEN <<>>
  ELSE (IF Stored(ObjectKeys[i]) THEN <<ObjectAt(ObjectKeys[i])>> ELSE <<>>)
         \o Contents(i + 1)

Listed ==
  LET all == Contents(1)
  IN  SubSeq(all, 1, IF Len(all) < MaxKeys THEN Len(all) ELSE MaxKeys)

\* A storage handler answers: the commands it sent, and the bucket after.
StorageAnswered(r, response, sent, objects) ==
  /\ req' = r
  /\ res' = response
  /\ stmts' = <<>>
  /\ fetches' = <<>>
  /\ prev' = tickets
  /\ hprev' = apiHistory
  /\ s3' = [objects |-> objects, sent |-> sent]
  /\ UNCHANGED <<tickets, nextId, now>>
  /\ UNCHANGED <<env, service, uptime, calls, apiHistory>>
  /\ UNCHANGED <<schema, pool, proc, updates>>

\* GET /api/storage/test-connection
GetStorageTestConnection ==
  /\ Idle
  /\ LET r == [op |-> "GET /api/storage/test-connection"]
         command == Command("HeadBucket", [Bucket |-> S3Config.bucketName])
     IN  IF s3Client = Null
         THEN StorageAnswered(r, S3Unavailable, <<>>, s3.objects)
         ELSE \E outcome \in S3Outcomes :
                IF outcome = "resolved"
                THEN StorageAnswered(r,
                       Response(200, [status |-> "success",
                                      message |-> "Successfully connected to S3 bucket",
                                      bucket |-> S3Config.bucketName]),
                       <<command>>, s3.objects)
                ELSE StorageAnswered(r, StorageFailed("Connection Failed", S3Refused),
                                     <<command>>, s3.objects)

\* GET /api/storage/files
GetStorageFiles ==
  /\ Idle
  /\ LET r == [op |-> "GET /api/storage/files"]
         command == Command("ListObjectsV2",
                            [Bucket |-> S3Config.bucketName, MaxKeys |-> MaxKeys])
         files == [i \in 1..Len(Listed) |->
                     [key |-> Listed[i].Key, size |-> Len(Listed[i].Body[2]),
                      lastModified |-> Listed[i].LastModified]]
     IN  IF s3Client = Null
         THEN StorageAnswered(r, S3Unavailable, <<>>, s3.objects)
         ELSE \E outcome \in S3Outcomes :
                IF outcome = "resolved"
                THEN StorageAnswered(r,
                       Response(200, [count |-> Len(files), files |-> files]),
                       <<command>>, s3.objects)
                ELSE StorageAnswered(r, StorageFailed("List Failed", S3Refused),
                                     <<command>>, s3.objects)

\* The bodies of an upload: filename and content, either of them possibly
\* missing or empty.
UploadBodies ==
  [filename : {Undefined, Str(""), Str("a.txt"), Str("b.txt")},
   content : {Undefined, Txt(<<>>), Txt(<<"h", "i">>)}]

\* POST /api/storage/files
PostStorageFiles ==
  /\ Idle
  /\ \E body \in UploadBodies :
       LET r == [op |-> "POST /api/storage/files", body |-> body]
           command == Command("PutObject",
                              [Bucket |-> S3Config.bucketName, Key |-> body.filename,
                               Body |-> body.content, ContentType |-> "text/plain"])
           object == [Key |-> body.filename[2], Body |-> body.content,
                      ContentType |-> "text/plain", LastModified |-> now]
       IN  IF s3Client = Null
           THEN StorageAnswered(r, S3Unavailable, <<>>, s3.objects)
           ELSE IF ~Truthy(body.filename) \/ ~Truthy(body.content)
           THEN StorageAnswered(r,
                  Response(400, [error |-> "Bad Request",
                                 message |-> "filename and content are required"]),
                  <<>>, s3.objects)
           ELSE \E outcome \in S3Outcomes :
                  IF outcome = "resolved"
                  THEN StorageAnswered(r,
                         Response(201, [status |-> "success",
                                        message |-> "File uploaded successfully",
                                        file |-> [key |-> body.filename,
                                                  size |-> Len(body.content[2])]]),
                         <<command>>,
                         {o \in s3.objects : o.Key # object.Key} \cup {object})
                  ELSE StorageAnswered(r, StorageFailed("Upload Failed", S3Refused),
                                       <<command>>, s3.objects)

\* The keys a request may name: those of the bucket's objects.
KeyInputs == {ObjectKeys[i] : i \in 1..Len(ObjectKeys)}

\* GET /api/storage/files/:key
GetStorageFilesKey ==
  /\ Idle
  /\ \E key \in KeyInputs :
       LET r == [op |-> "GET /api/storage/files/:key", key |-> key]
           command == Command("GetObject", [Bucket |-> S3Config.bucketName, Key |-> key])
       IN  IF s3Client = Null
           THEN StorageAnswered(r, S3Unavailable, <<>>, s3.objects)
           ELSE \E outcome \in S3Outcomes :
                  LET error == IF outcome = "refused" THEN S3Refused ELSE NoSuchKey
                  IN
                  IF outcome = "resolved" /\ Stored(key)
                  THEN StorageAnswered(r,
                         Response(200, [key |-> key, content |-> ObjectAt(key).Body,
                                        contentType |-> ObjectAt(key).ContentType,
                                        lastModified |-> ObjectAt(key).LastModified]),
                         <<command>>, s3.objects)
                  ELSE IF error.name = "NoSuchKey"
                  THEN StorageAnswered(r,
                         Response(404, [error |-> "Not Found", message |-> "File not found"]),
                         <<command>>, s3.objects)
                  ELSE StorageAnswered(r, StorageFailed("Get Failed", error),
                                       <<command>>, s3.objects)

\* DELETE /api/storage/files/:key
DeleteStorageFilesKey ==
  /\ Idle
  /\ \E key \in KeyInputs :
       LET r == [op |-> "DELETE /api/storage/files/:key", key |-> key]
           command == Command("DeleteObject", [Bucket |-> S3Config.bucketName, Key |-> key])
       IN  IF s3Client = Null
           THEN StorageAnswered(r, S3Unavailable, <<>>, s3.objects)
           ELSE \E outcome \in S3Outcomes :
                  IF outcome = "resolved"
                  THEN StorageAnswered(r,
                         Response(200, [status |-> "success",
                                        message |-> "File deleted successfully",
                                        key |-> key]),
                         <<command>>, {o \in s3.objects : o.Key # key})
                  ELSE StorageAnswered(r, StorageFailed("Delete Failed", S3Refused),
                                       <<command>>, s3.objects)

\* The settings of the storage client: each unset, empty or set.
StorageEnvs ==
  {[NoEnv EXCEPT !.AWS_ACCESS_KEY_ID = a, !.AWS_SECRET_ACCESS_KEY = k,
                 !.AWS_S3_BUCKET_NAME = b] :
     a \in {Undefined, Str(""), Str("id")},
     k \in {Undefined, Str(""), Str("secret")},
     b \in {Undefined, Str(""), Str("bucket")}}

InitStorage ==
  /\ tickets = <<>>
  /\ nextId = 1
  /\ now = 0
  /\ req = NoRequest
  /\ res = NoResponse
  /\ stmts = <<>>
  /\ prev = <<>>
  /\ \E e \in StorageEnvs : Started(e, "up")
  /\ Serving

NextStorage ==
  \/ GetStorageTestConnection
  \/ GetStorageFiles
  \/ PostStorageFiles
  \/ GetStorageFilesKey
  \/ DeleteStorageFilesKey
  \/ GetHealth
  \/ Finish

SpecStorage == InitStorage /\ [][NextStorage]_vars

(***************************************************************************)
(* The seed script (scripts/seed.js): it empties the table, restarts the   *)
(* id sequence and inserts the sample tickets, one statement at a time.    *)
(***************************************************************************)
sampleTickets ==
  <<
   [title |-> Str("Deployment failing with 502 error"),
    description |-> Str("Application deployment succeeds but health checks fail with 502 Bad Gateway. Logs show server is running on port 3000."),
    severity |-> Str("critical"), status |-> Str("open"), customer_id |-> Num(1001),
    assigned_to |-> Str("Sarah Chen"), resolution_time |-> Undefined],
   [title |-> Str("DATABASE_URL not connecting"),
    description |-> Str("PostgreSQL connection keeps timing out. Error: connection to server at \"containers.internal\" timed out"),
    severity |-> Str("high"), status |-> Str("in_progress"), customer_id |-> Num(1002),
    assigned_to |-> Str("Mike Rodriguez"), resolution_time |-> Undefined],
   [title |-> Str("Build succeeds but deploy crashes"),
    description |-> Str("Docker build completes successfully but deployment crashes immediately. Exit code 1."),
    severity |-> Str("high"), status |-> Str("resolved"), customer_id |-> Num(1003),
    assigned_to |-> Str("Sarah Chen"), resolution_time |-> Num(45)],
   [title |-> Str("Slow API response times"),
    description |-> Str("API endpoints taking 5-10 seconds to respond. Database queries seem slow."),
    severity |-> Str("medium"), status |-> Str("in_progress"), customer_id |-> Num(1001),
    assigned_to |-> Str("Alex Kim"), resolution_time |-> Undefined],
   [title |-> Str("Environment variables not loading"),
    description |-> Str("App crashes on startup with \"Missing required env vars\" despite variables being set in Railway dashboard."),
    severity |-> Str("high"), status |-> Str("resolved"), customer_id |-> Num(1004),
    assigned_to |-> Str("Mike Rodriguez"), resolution_time |-> Num(30)],
   [title |-> Str("Memory usage growing continuously"),
    description |-> Str("Application memory usage grows from 200MB to 2GB over 24 hours. Eventually crashes with OOM."),
    severity |-> Str("critical"), status |-> Str("escalated"), customer_id |-> Num(1005),
    assigned_to |-> Null, resolution_time |-> Undefined],
   [title |-> Str("CORS errors in production"),
    description |-> Str("Frontend can't connect to API in production. CORS policy blocking requests. Works fine locally."),
    severity |-> Str("medium"), status |-> Str("resolved"), customer_id |-> Num(1006),
    assigned_to |-> Str("Alex Kim"), resolution_time |-> Num(20)],
   [title |-> Str("Database migrations not running"),
    description |-> Str("Schema changes not applied after deployment. Old schema still in database."),
    severity |-> Str("medium"), status |-> Str("open"), customer_id |-> Num(1007),
    assigned_to |-> Str("Sarah Chen"), resolution_time |-> Undefined],
   [title |-> Str("Webhook integration timing out"),
    description |-> Str("External webhook calls timing out after 30 seconds. Affecting order processing."),
    severity |-> Str("high"), status |-> Str("in_progress"), customer_id |-> Num(1008),
    assigned_to |-> Str("Mike Rodriguez"), resolution_time |-> Undefined],
   [title |-> Str("Logs not showing console.log output"),
    description |-> Str("Application seems to be running but no logs appearing in Railway dashboard."),
    severity |-> Str("low"), status |-> Str("resolved"), customer_id |-> Num(1009),
    assigned_to |-> Str("Alex Kim"), resolution_time |-> Num(10)],
   [title |-> Str("SSL certificate issues"),
    description |-> Str("Custom domain showing \"Not Secure\" warning in browser. Certificate not provisioned."),
    severity |-> Str("medium"), status |-> Str("open"), customer_id |-> Num(1010),
    assigned_to |-> Null, resolution_time |-> Undefined],
   [title |-> Str("Dockerfile CMD not executing"),
    description |-> Str("Container builds but process doesn't start. Railway shows \"Waiting for service to be ready\"."),
    severity |-> Str("high"), status |-> Str("resolved"), customer_id |-> Num(1011),
    assigned_to |-> Str("Sarah Chen"), resolution_time |-> Num(60)],
   [title |-> Str("Rate limiting from external API"),
    description |-> Str("Getting 429 Too Many Requests from Stripe API. Need to implement backoff."),
    severity |-> Str("medium"), status |-> Str("in_progress"), customer_id |-> Num(1012),
    assigned_to |-> Str("Alex Kim"), resolution_time |-> Undefined],
   [title |-> Str("Database connection pool exhausted"),
    description |-> Str("Error: remaining connection slots are reserved. Pool size maxed out."),
    severity |-> Str("critical"), status |-> Str("open"), customer_id |-> Num(1013),
    assigned_to |-> Str("Mike Rodriguez"), resolution_time |-> Undefined],
   [title |-> Str("Static files not serving"),
    description |-> Str("404 errors on all /public/* routes. Files exist in repository."),
    severity |-> Str("low"), status |-> Str("resolved"), customer_id |-> Num(1014),
    assigned_to |-> Str("Sarah Chen"), resolution_time |-> Num(15)],
   [title |-> Str("Health check endpoint timing out"),
    description |-> Str("/health endpoint taking too long. Railway marking service as unhealthy."),
    severity |-> Str("high"), status |-> Str("resolved"), customer_id |-> Num(1015),
    assigned_to |-> Str("Mike Rodriguez"), resolution_time |-> Num(25)],
   [title |-> Str("Question about pricing"),
    description |-> Str("Customer wants to understand usage-based pricing. How are database queries billed?"),
    severity |-> Str("low"), status |-> Str("resolved"), customer_id |-> Num(1016),
    assigned_to |-> Str("Alex Kim"), resolution_time |-> Num(5)],
   [title |-> Str("Cannot connect to Redis"),
    description |-> Str("Redis plugin added but connection refused. Hostname resolution failing."),
    severity |-> Str("medium"), status |-> Str("open"), customer_id |-> Num(1017),
    assigned_to |-> Null, resolution_time |-> Undefined],
   [title |-> Str("Deployment rollback needed"),
    description |-> Str("Latest deployment introduced critical bug. How to rollback to previous version?"),
    severity |-> Str("critical"), status |-> Str("resolved"), customer_id |-> Num(1018),
    assigned_to |-> Str("Sarah Chen"), resolution_time |-> Num(10)],
   [title |-> Str("Private networking setup help"),
    description |-> Str("Want to connect frontend and backend services privately. How to configure?"),
    severity |-> Str("low"), status |-> Str("open"), customer_id |-> Num(1019),
    assigned_to |-> Str("Alex Kim"), resolution_time |-> Undefined]
  >>

SeedInsertStatement(ticket) ==
  Stmt("insert",
       <<Clause("title", 1), Clause("description", 2), Clause("severity", 3),
         Clause("status", 4), Clause("customer_id", 5), Clause("assigned_to", 6),
         Clause("resolution_time", 7)>>,
       NoClauses, 0, 0,
       <<ticket.title, ticket.description, ticket.severity, ticket.status,
         ticket.customer_id,
         OrElse(ticket.assigned_to, Null),
         OrElse(ticket.resolution_time, Null)>>)

\* The statements of the script, in order: the connection test, the
\* DELETE, the ALTER SEQUENCE, one INSERT per sample, the two SELECTs.
SeedStatements == Len(sampleTickets) + 5

\* The store after the statements k..n of the script, each committed on
\* its own, from the table and the sequence as they are before the k-th.
RECURSIVE SeedFrom(_, _, _, _)
SeedFrom(k, n, tks, id) ==
  IF k > n THEN [tickets |-> tks, nextId |-> id]
  ELSE IF k = 2 THEN SeedFrom(k + 1, n, <<>>, id)
  ELSE IF k = 3 THEN SeedFrom(k + 1, n, tks, 1)
  ELSE IF k >= 4 /\ k <= Len(sampleTickets) + 3
  THEN SeedFrom(k + 1, n,
                Append(tks, InsertRow(SeedInsertStatement(sampleTickets[k - 3]), id, now)),
                id + 1)
  ELSE SeedFrom(k + 1, n, tks, id)

\* Where a run of the script fails: at the connection test, at the DELETE,
\* at the ALTER SEQUENCE, at the first or the last INSERT, or nowhere (0).
SeedFailPoints == {0, 1, 2, 3, 4, Len(sampleTickets) + 3}

\* A run of the script: the statements before the failing one take effect,
\* the catch exits with status 1.
Seed ==
  /\ Idle
  /\ nextId <= MaxIssued
  /\ \E failAt \in SeedFailPoints :
       LET done == IF failAt = 0 THEN SeedStatements ELSE failAt - 1
           after == SeedFrom(1, done, tickets, nextId)
       IN  /\ tickets' = after.tickets
           /\ nextId' = after.nextId
           /\ req' = [op |-> "node scripts/seed.js", failAt |-> failAt]
           /\ res' = [code |-> 0, exit |-> IF failAt = 0 THEN 0 ELSE 1]
           /\ stmts' = <<>>
           /\ prev' = tickets
           /\ UNCHANGED now
  /\ UNCHANGED <<gateway, platform>>

NextSeed ==
  \/ PostTickets
  \/ PatchTicketsId
  \/ Seed
  \/ Finish

SpecSeed == Init /\ [][NextSeed]_vars

(***************************************************************************)
(* Schema initialization and the connectivity probe (db.js).               *)
(***************************************************************************)
\* The three statements of initializeDatabase, in order.
SchemaStatements ==
  <<[kind |-> "table", name |-> "support_tickets", column |-> ""],
    [kind |-> "index", name |-> "idx_status", column |-> "status"],
    [kind |-> "index", name |-> "idx_severity", column |-> "severity"]>>

HasTable(sch, name) == \E i \in 1..Len(sch.tables) : sch.tables[i] = name
HasIndex(sch, name) == \E i \in 1..Len(sch.indexes) : sch.indexes[i].name = name

\* CREATE TABLE / CREATE INDEX without IF NOT EXISTS: the statement fails
\* when the relation exists.
ExecuteCreate(sch, st) ==
  IF st.kind = "table"
  THEN [schema |-> [sch EXCEPT !.tables = Append(@, st.name)],
        failed |-> HasTable(sch, st.name)]
  ELSE [schema |-> [sch EXCEPT !.indexes = Append(@, Index(st.name, st.column))],
        failed |-> HasIndex(sch, st.name)]

\* CREATE TABLE IF NOT EXISTS / CREATE INDEX IF NOT EXISTS.
ExecuteCreateIfNotExists(sch, st) ==
  IF st.kind = "table"
  THEN [schema |-> IF HasTable(sch, st.name) THEN sch
                   ELSE [sch EXCEPT !.tables = Append(@, st.name)],
        failed |-> FALSE]
  ELSE [schema |-> IF HasIndex(sch, st.name) THEN sch
                   ELSE [sch EXCEPT !.indexes = Append(@, Index(st.name, st.column))],
        failed |-> FALSE]

\* Where a run of initializeDatabase fails: at pool.connect (0), at its
\* k-th statement (1..3), or nowhere (4).
FailPoints == 0..(Len(SchemaStatements) + 1)

\* The statements from the k-th on, each awaited before the next; the
\* first one that fails ends the run.
RECURSIVE RunStatements(_, _, _)
RunStatements(sch, k, failAt) ==
  IF k > Len(SchemaStatements) THEN [schema |-> sch, threw |-> FALSE]
  ELSE IF k = failAt THEN [schema |-> sch, threw |-> TRUE]
  ELSE LET r == ExecuteCreateIfNotExists(sch, SchemaStatements[k])
       IN  IF r.failed THEN [schema |-> sch, threw |-> TRUE]
           ELSE RunStatements(r.schema, k + 1, failAt)

\* A run that logs the failure of a statement and resolves.
InitializeDatabaseSwallowing(sch, failAt) ==
  IF failAt = 0
  THEN [schema |-> sch, threw |-> TRUE, connected |-> 0, released |-> 0]
  ELSE [schema |-> RunStatements(sch, 1, failAt).schema, threw |-> FALSE,
        connected |-> 1, released |-> 1]

\* initializeDatabase: pool.connect outside the try; the statements; the
\* catch rethrows; the finally releases the client.
InitializeDatabase(sch, failAt) ==
  IF failAt = 0
  THEN [schema |-> sch, threw |-> TRUE, connected |-> 0, released |-> 0]
  ELSE [schema |-> RunStatements(sch, 1, failAt).schema,
        threw |-> RunStatements(sch, 1, failAt).threw,
        connected |-> 1, released |-> 1]

\* testConnection: true when the SELECT resolves, false when it rejects.
TestConnection(dbOk) == dbOk

\* A run of initializeDatabase against the database as it is: what the
\* run was given and whether it threw are kept with the request.
RunInitializeDatabase ==
  \E failAt \in FailPoints :
    LET run == InitializeDatabase(schema, failAt)
    IN  /\ req' = [op |-> "initializeDatabase", before |-> schema, failAt |-> failAt]
        /\ res' = [code |-> 0, threw |-> run.threw]
        /\ schema' = run.schema
        /\ pool' = [pool EXCEPT !.borrowed = @ + run.connected - run.released]
        /\ stmts' = <<>>
        /\ prev' = tickets
        /\ UNCHANGED <<tickets, nextId, now>>
        /\ UNCHANGED <<gateway, s3, proc, updates>>

\* The database is new and empty, or initialized and holding tickets.
InitSchema ==
  /\ \/ /\ schema = NoSchema
        /\ tickets = <<>>
     \/ /\ schema = Initialized
        /\ tickets \in StoredTables
  /\ nextId = Len(tickets) + 1
  /\ now = 0
  /\ req = NoRequest
  /\ res = NoResponse
  /\ stmts = <<>>
  /\ prev = tickets
  /\ Started(NoEnv, "up")
  /\ s3 = [objects |-> {}, sent |-> <<>>]
  /\ pool = NewPool
  /\ proc = Cold
  /\ updates = NoUpdates

NextSchema == RunInitializeDatabase

SpecSchema == InitSchema /\ [][NextSchema]_vars

(***************************************************************************)
(* The process lifecycle: Starting, SchemaValidating, Serving, Draining,   *)
(* Terminated, FailedStartup.  Time while draining is counted in units.    *)
(***************************************************************************)
DrainTimeout == 10
Signals == {"SIGINT", "SIGTERM"}

\* Steps of the lifecycle leave the requests and the services alone.
LifecycleStep ==
  /\ UNCHANGED <<tickets, nextId, now, req, res, stmts, prev>>
  /\ UNCHANGED <<gateway, s3, updates>>

\* Starting: the connectivity probe.
ProbeStore ==
  /\ proc.state = "Starting"
  /\ \E dbOk \in BOOLEAN :
       proc' = IF TestConnection(dbOk)
               THEN [proc EXCEPT !.state = "SchemaValidating", !.probe = "succeeded",
                                 !.store = IF dbOk THEN "reachable" ELSE "unreachable"]
               ELSE [proc EXCEPT !.state = "FailedStartup", !.probe = "failed",
                                 !.store = IF dbOk THEN "reachable" ELSE "unreachable",
                                 !.exit = Num(1)]
  /\ UNCHANGED <<schema, pool>>
  /\ LifecycleStep

\* SchemaValidating: the schema initialization.
ValidateSchema ==
  /\ proc.state = "SchemaValidating"
  /\ \E failAt \in FailPoints :
       LET run == InitializeDatabase(schema, failAt)
       IN  /\ schema' = run.schema
           /\ pool' = [pool EXCEPT !.borrowed = @ + run.connected - run.released]
           /\ proc' = IF run.threw
                      THEN [proc EXCEPT !.state = "FailedStartup",
                                        !.schemaInit = "failed", !.exit = Num(1)]
                      ELSE [proc EXCEPT !.state = "Serving",
                                        !.schemaInit = "succeeded", !.accepting = TRUE]
  /\ LifecycleStep

\* Serving: a connection is accepted and its request is in flight.
AcceptRequest ==
  /\ proc.accepting
  /\ proc.state \in {"Serving", "Draining"}
  /\ proc.inflight < MaxInflight
  /\ proc' = [proc EXCEPT !.inflight = @ + 1]
  /\ UNCHANGED <<schema, pool>>
  /\ LifecycleStep

\* A request in flight completes.
CompleteRequest ==
  /\ proc.state \in {"Serving", "Draining"}
  /\ proc.inflight > 0
  /\ proc' = [proc EXCEPT !.inflight = @ - 1]
  /\ UNCHANGED <<schema, pool>>
  /\ LifecycleStep

\* Serving -> Draining: an interrupt or a terminate signal arrives.
TerminationSignal ==
  /\ proc.state = "Serving"
  /\ \E sig \in Signals :
       proc' = [proc EXCEPT !.state = "Draining", !.signal = sig,
                            !.accepting = FALSE, !.draining = 0]
  /\ UNCHANGED <<schema, pool>>
  /\ LifecycleStep

\* Draining: a unit of time passes, unless the drain has finished (the
\* exit follows the closing of the pool at once) or the timer is due.
DrainElapses ==
  /\ proc.state = "Draining"
  /\ proc.draining < DrainTimeout
  /\ ~(proc.inflight = 0 /\ pool.ended)
  /\ proc' = [proc EXCEPT !.draining = @ + 1]
  /\ UNCHANGED <<schema, pool>>
  /\ LifecycleStep

\* Draining: every request has completed and the pool is closed.
ClosePool ==
  /\ proc.state = "Draining"
  /\ proc.inflight = 0
  /\ ~pool.ended
  /\ pool' = [pool EXCEPT !.ended = TRUE]
  /\ UNCHANGED <<schema, proc>>
  /\ LifecycleStep

\* Draining -> Terminated, the drain having finished first: exit 0.
ExitDrained ==
  /\ proc.state = "Draining"
  /\ proc.inflight = 0
  /\ pool.ended
  /\ proc' = [proc EXCEPT !.state = "Terminated", !.exit = Num(0)]
  /\ UNCHANGED <<schema, pool>>
  /\ LifecycleStep

\* An exit as soon as the signal has been received.
ExitTimedOutAtOnce ==
  /\ proc.state = "Draining"
  /\ proc' = [proc EXCEPT !.state = "Terminated", !.exit = Num(1)]
  /\ UNCHANGED <<schema, pool>>
  /\ LifecycleStep

\* Draining -> Terminated, the drain timeout having elapsed first: exit 1.
ExitTimedOut ==
  /\ proc.state = "Draining"
  /\ proc.draining >= DrainTimeout
  /\ proc' = [proc EXCEPT !.state = "Terminated", !.exit = Num(1)]
  /\ UNCHANGED <<schema, pool>>
  /\ LifecycleStep

\* An uncaught fault that waits for the drain like a signal.
UncaughtFaultDraining ==
  /\ proc.state = "Serving"
  /\ proc' = [proc EXCEPT !.state = "Draining", !.fault = TRUE,
                          !.accepting = FALSE, !.draining = 0]
  /\ UNCHANGED <<schema, pool>>
  /\ LifecycleStep

\* Serving -> Terminated: an uncaught fault outside request handling.
UncaughtFault ==
  /\ proc.state = "Serving"
  /\ proc' = [proc EXCEPT !.state = "Terminated", !.fault = TRUE,
                          !.accepting = FALSE, !.exit = Num(1)]
  /\ UNCHANGED <<schema, pool>>
  /\ LifecycleStep

\* The process starts against a database that is new or already
\* initialized.
InitLifecycle ==
  /\ tickets = <<>>
  /\ nextId = 1
  /\ now = 0
  /\ req = NoRequest
  /\ res = NoResponse
  /\ stmts = <<>>
  /\ prev = <<>>
  /\ Started(NoEnv, "up")
  /\ s3 = [objects |-> {}, sent |-> <<>>]
  /\ schema \in {NoSchema, Initialized}
  /\ pool = NewPool
  /\ proc = Cold
  /\ updates = NoUpdates

NextLifecycle ==
  \/ ProbeStore
  \/ ValidateSchema
  \/ AcceptRequest
  \/ CompleteRequest
  \/ TerminationSignal
  \/ DrainElapses
  \/ ClosePool
  \/ ExitDrained
  \/ ExitTimedOut
  \/ UncaughtFault

SpecLifecycle == InitLifecycle /\ [][NextLifecycle]_vars

\* Time passes, a timer that is due fires, and the exit that follows the
\* closing of the pool is taken.
SpecLifecycleFair ==
  SpecLifecycle /\ WF_vars(DrainElapses) /\ WF_vars(ExitTimedOut) /\ WF_vars(ExitDrained)

(***************************************************************************)
(* Faults raised by request handlers.  GET /debug/error throws while the   *)
(* router is calling it; POST /api/status/notify/:ticketId and             *)
(* POST /api/storage/files read the fields of req.body before their try    *)
(* block, in an async function, so a request whose body was not parsed     *)
(* rejects the promise the handler returned.  GET /debug/timeout is an     *)
(* async handler with no try block at all, which waits for a timer.        *)
(***************************************************************************)
\* throw new Error(...) of GET /debug/error.
IntentionalError == Rejected("Error", "Intentional error for debugging practice")

\* const { ... } = req.body when req.body is undefined.
DestructuringError ==
  Rejected("TypeError", "Cannot destructure property of 'req.body' as it is undefined.")

\* The application's error-handling middleware: whatever fault reaches it
\* is answered with a 500 that carries a generic message.
ErrorHandler(err) ==
  Response(500, [error |-> "Internal Server Error",
                 message |-> "An unexpected error occurred"])

\* The router hands a fault to the error-handling middleware, be it thrown
\* while the handler was called or the rejection of the promise an async
\* handler returned.
Forwarded(err) == ErrorHandler(err)

\* GET /debug/error with a fault that takes the process down.
GetDebugErrorCrashing ==
  /\ Idle
  /\ proc.state = "Serving"
  /\ req' = [op |-> "GET /debug/error"]
  /\ res' = NoResponse
  /\ stmts' = <<>>
  /\ fetches' = <<>>
  /\ prev' = tickets
  /\ hprev' = apiHistory
  /\ proc' = [proc EXCEPT !.state = "Terminated", !.fault = TRUE,
                          !.accepting = FALSE, !.exit = Num(1)]
  /\ UNCHANGED <<tickets, nextId, now, env, service, uptime, calls, apiHistory>>
  /\ UNCHANGED <<s3, schema, pool, updates>>

\* GET /debug/error
GetDebugError ==
  /\ Idle
  /\ proc.state = "Serving"
  /\ Answered([op |-> "GET /debug/error"], Forwarded(IntentionalError), <<>>, <<>>)
  /\ UNCHANGED <<calls, apiHistory>>

\* req.query of GET /debug/timeout.
TimeoutQueries ==
  {[seconds |-> Undefined], [seconds |-> Txt(<<"2">>)], [seconds |-> Txt(<<"0">>)],
   [seconds |-> Txt(<<"x">>)]}

DefaultTimeoutSeconds == 30

\* GET /debug/timeout up to its await: the handler waits for a timer of
\* parseInt(req.query.seconds) || 30 seconds.
GetDebugTimeout ==
  /\ Idle
  /\ proc.state = "Serving"
  /\ Quiet
  /\ \E query \in TimeoutQueries :
       LET seconds == OrElse(ParseInt(query.seconds), Num(DefaultTimeoutSeconds))
       IN  Awaiting(Fetching("GET /debug/timeout", seconds[2] * 1000,
                             [seconds |-> seconds]))

\* GET /debug/timeout after its await: the timer has run out.
DebugTimeoutSettles ==
  /\ Idle
  /\ \E i \in DOMAIN calls :
       LET c == calls[i]
       IN  /\ c.op = "GET /debug/timeout"
           /\ TimerDue(c)
           /\ Answered([op |-> c.op],
                       Response(200, [message |-> "Timeout simulation complete",
                                      duration_seconds |-> c.data.seconds]),
                       <<>>, <<>>)
           /\ calls' = Without(calls, i)
           /\ UNCHANGED apiHistory

\* POST /api/status/notify/:ticketId of a request whose body was not
\* parsed: the handler faults before its try block.
PostApiStatusNotifyUnparsed ==
  /\ Idle
  /\ proc.state = "Serving"
  /\ \E ticketId \in TicketIds :
       /\ Answered([op |-> "POST /api/status/notify/:ticketId", ticketId |-> ticketId,
                    body |-> Undefined],
                   Forwarded(DestructuringError), <<>>, <<>>)
       /\ UNCHANGED <<calls, apiHistory>>

\* POST /api/storage/files of a request whose body was not parsed: past
\* requireS3, the handler faults before its try block.
PostStorageFilesUnparsed ==
  /\ Idle
  /\ proc.state = "Serving"
  /\ LET r == [op |-> "POST /api/storage/files", body |-> Undefined]
     IN  IF s3Client = Null
         THEN StorageAnswered(r, S3Unavailable, <<>>, s3.objects)
         ELSE StorageAnswered(r, Forwarded(DestructuringError), <<>>, s3.objects)

\* The process with and without object storage.
FaultEnvs ==
  {NoEnv,
   [NoEnv EXCEPT !.AWS_ACCESS_KEY_ID = Str("id"), !.AWS_SECRET_ACCESS_KEY = Str("secret"),
                 !.AWS_S3_BUCKET_NAME = Str("bucket")]}

InitFaults ==
  /\ tickets = <<>>
  /\ nextId = 1
  /\ now = 0
  /\ req = NoRequest
  /\ res = NoResponse
  /\ stmts = <<>>
  /\ prev = <<>>
  /\ \E e \in FaultEnvs : Started(e, "up")
  /\ Serving

NextFaults ==
  \/ GetDebugError
  \/ GetDebugTimeout
  \/ DebugTimeoutSettles
  \/ PostApiStatusNotifyUnparsed
  \/ PostStorageFilesUnparsed
  \/ GetHealth
  \/ Elapse
  \/ Finish

SpecFaults == InitFaults /\ [][NextFaults]_vars

(***************************************************************************)
(* Properties of the ticket routes.                                        *)
(***************************************************************************)
IsCreate == req.op = "POST /api/tickets"
IsUpdate == req.op = "PATCH /api/tickets/:id"
IsGet == req.op = "GET /api/tickets/:id"
IsList == req.op = "GET /api/tickets"

\* A title that is missing, empty or made of whitespace only.
BlankTitle(title) ==
  \/ title = Undefined
  \/ title[1] = "txt" /\ \A i \in DOMAIN title[2] : title[2][i] \in Whitespace

InEnum(set, v) == v[1] = "str" /\ v[2] \in set

\* C1: every persisted ticket has its severity and its status in their
\* enumerated sets, and a create or partial update that carries another
\* value for either field is answered 400 with no statement issued.
C1_EnumsPersisted ==
  /\ \A i \in DOMAIN tickets :
       /\ InEnum(validSeverities, tickets[i].severity)
       /\ InEnum(validStatuses, tickets[i].status)
  /\ (IsUpdate /\ req.body.severity # Undefined
        /\ ~InEnum(validSeverities, req.body.severity))
       => res.code = 400 /\ stmts = <<>>

\* C2: a create whose title is missing, empty or whitespace-only is
\* answered 400, issues no statement and leaves the stored tickets as
\* they were.
C2_BlankTitleRejected ==
  (IsCreate /\ BlankTitle(req.body.title))
    => /\ res.code = 400
       /\ stmts = <<>>
       /\ tickets = prev

C2_Witness ==
  /\ IsCreate
  /\ req.body.title = Txt(<<" ", " ">>)
  /\ req.body.severity = Str("high")
  /\ res.code = 400
  /\ Len(tickets) > 0

\* C3: a successful create answers 201 with the stored row; its status is
\* open whatever the body carries, its severity is the supplied enum value
\* or low when none was supplied, and exactly one row was inserted by one
\* INSERT.
C3_CreateDefaults ==
  (IsCreate /\ res.code \notin {400, 500})
    => /\ res.code = 201
       /\ res.body.status = Str("open")
       /\ InEnum(validSeverities, res.body.severity)
       /\ InEnum(validSeverities, req.body.severity)
            => res.body.severity = req.body.severity
       /\ req.body.severity = Undefined => res.body.severity = Str("low")
       /\ res.body.title = req.body.title
       /\ tickets = Append(prev, res.body)
       /\ Len(stmts) = 1 /\ stmts[1].kind = "insert"

C3_Witness ==
  /\ IsCreate
  /\ res.code = 201
  /\ req.body.status = Str("resolved")
  /\ req.body.severity = Str("high")
  /\ Len(prev) > 0

WellFormedId(id) ==
  id[1] = "txt" /\ Len(id[2]) > 0 /\ \A i \in DOMAIN id[2] : id[2][i] \in Digits

IdNumber(id) == Num(DigitsValue(id[2], 0))

RowsWithId(tks, n) == {tks[i] : i \in {j \in DOMAIN tks : tks[j].id = n}}

\* The body of a partial update names no recognized field.
NoFieldSupplied(body) ==
  /\ body.status = Undefined
  /\ body.severity = Undefined
  /\ body.assigned_to = Undefined
  /\ body.resolution_time = Undefined

\* C5: a partial update that names no recognized field, or a status
\* outside the enum (whatever other fields come with it), is answered 400;
\* every partial update answered 400 issued no statement and left every
\* ticket as it was.
C5_RejectedUpdateChangesNothing ==
  /\ (IsUpdate /\ (NoFieldSupplied(req.body)
                     \/ (req.body.status # Undefined
                           /\ ~InEnum(validStatuses, req.body.status))))
       => res.code = 400
  /\ (IsUpdate /\ res.code = 400) => stmts = <<>> /\ tickets = prev

C5_Witness ==
  /\ IsUpdate
  /\ res.code = 400
  /\ req.body.status = Str("bogus")
  /\ req.body.severity = Str("high")
  /\ req.body.assigned_to = Str("bob")
  /\ RowsWithId(tickets, IdNumber(req.id)) # {}

\* C6: a partial update that passed validation and whose statement the
\* store executed answers 404 and changes no ticket when no row has the
\* id, and answers 200 with the row as it is after the update when one has.
C6_UpdateFoundOrNot ==
  (IsUpdate /\ WellFormedId(req.id) /\ res.code \notin {400, 500})
    => IF RowsWithId(prev, IdNumber(req.id)) = {}
         THEN res.code = 404 /\ tickets = prev
         ELSE /\ res.code = 200
              /\ res.body.id = IdNumber(req.id)
              /\ RowsWithId(tickets, IdNumber(req.id)) = {res.body}
              /\ Len(tickets) = Len(prev)

C6_Witness ==
  /\ IsUpdate
  /\ res.code = 200
  /\ res.body.status = Str("resolved")
  /\ \E r \in RowsWithId(prev, IdNumber(req.id)) : r.status = Str("open")

\* C7: every ticket's updated timestamp is at least its created
\* timestamp; an accepted partial update sets the updated timestamp of its
\* row to the store's current time and changes no created timestamp.
C7_Timestamps ==
  /\ \A i \in DOMAIN tickets : tickets[i].updated_at[2] >= tickets[i].created_at[2]
  /\ (IsUpdate /\ res.code = 200)
       => /\ res.body.updated_at = Num(now)
          /\ \A r \in RowsWithId(tickets, res.body.id) : r.updated_at = Num(now)
          /\ \A i \in DOMAIN tickets : tickets[i].created_at = prev[i].created_at

C7_Witness ==
  /\ IsUpdate
  /\ res.code = 200
  /\ res.body.updated_at[2] > res.body.created_at[2]
  /\ \E r \in RowsWithId(prev, res.body.id) : r.updated_at[2] < now

\* C8: a get-by-id that the store executed answers 200 with exactly the
\* stored ticket of that id when there is one and 404 when there is none,
\* and changes nothing; the row a create or an update answers with is the
\* stored row of its id, so a get that follows returns the same row.
C8_GetById ==
  /\ (IsGet /\ WellFormedId(req.id) /\ res.code # 500)
       => /\ tickets = prev
          /\ IF RowsWithId(tickets, IdNumber(req.id)) = {}
               THEN res.code = 404
               ELSE res.code = 200 /\ RowsWithId(tickets, IdNumber(req.id)) = {res.body}
  /\ ((IsCreate /\ res.code = 201) \/ (IsUpdate /\ res.code = 200))
       => RowsWithId(tickets, res.body.id) = {res.body}

C8_Witness ==
  /\ IsGet
  /\ res.code = 200
  /\ res.body.id = Num(2)
  /\ res.body.status = Str("resolved")

\* C9: a get-by-id with a malformed id is answered 400, never 404 or 500,
\* and issues no statement.
C9_MalformedIdRejected ==
  (IsGet /\ ~WellFormedId(req.id)) => res.code = 400 /\ stmts = <<>>

FilterColumns == {"status", "severity", "customer_id", "assigned_to"}

\* The value a ticket's column is compared with: the customer reference is
\* compared as the integer read from the query string.
FilterValue(query, col) ==
  IF col = "customer_id" THEN ParseInt(query[col]) ELSE query[col]

Present(v) == v # Undefined
NonEmpty(v) == v # Undefined /\ v # Str("") /\ v # Txt(<<>>)

Min(a, b) == IF a < b THEN a ELSE b

\* The list answer is the tickets equal on every filter that counts as
\* supplied, newest first, after skipping `offset` of them and keeping at
\* most `limit`; an absent limit is bound as 50 and an absent offset as 0.
ListedCorrectly(Supplied(_)) ==
  (IsList /\ res.code = 200)
    => LET q == req.query
           out == res.body.tickets
           outSet == Range(out)
           M == {t \in Range(tickets) :
                   \A col \in FilterColumns :
                     Supplied(q[col]) => t[col] = FilterValue(q, col)}
           l == IF q.limit = Undefined THEN 50 ELSE ParseInt(q.limit)[2]
           o == IF q.offset = Undefined THEN 0 ELSE ParseInt(q.offset)[2]
           rest == Cardinality(M) - Min(o, Cardinality(M))
       IN  /\ tickets = prev
           /\ outSet \subseteq M
           /\ Cardinality(outSet) = Len(out)
           /\ \A i, j \in DOMAIN out : i < j => out[i].created_at[2] >= out[j].created_at[2]
           /\ Len(out) = Min(l, rest)
           /\ \E Skipped \in SUBSET (M \ outSet) :
                /\ Cardinality(Skipped) = Min(o, Cardinality(M))
                /\ \A x \in Skipped, y \in outSet : x.created_at[2] >= y.created_at[2]
                /\ \A x \in M \ (outSet \cup Skipped), y \in outSet \cup Skipped :
                     x.created_at[2] <= y.created_at[2]
           /\ q.limit = Undefined => Bound(stmts[1], stmts[1].limitPh) = Num(50)
           /\ q.offset = Undefined => Bound(stmts[1], stmts[1].offsetPh) = Num(0)

\* C10 as stated: for every combination of present and absent filters and
\* every limit and offset, list returns exactly the tickets equal on every
\* supplied filter, ordered by creation time descending, offset then limit
\* applied last, with the defaults limit=50 and offset=0.
C10_AsStated == ListedCorrectly(Present)

\* C10 amended: the same, where a filter counts as supplied when its value
\* is not empty; a filter key sent with an empty value imposes no
\* constraint.
C10_ListFiltersOrderWindow == ListedCorrectly(NonEmpty)

C10_Witness ==
  /\ IsList
  /\ res.code = 200
  /\ req.query.status = Str("open")
  /\ req.query.severity = Str("high")
  /\ req.query.limit = Txt(<<"1">>)
  /\ Len(res.body.tickets) = 1
  /\ Len(tickets) = 2
  /\ \E i \in DOMAIN tickets : tickets[i].status = Str("resolved")

\* The tickets equal on every filter of a list query that counts as
\* supplied.
MatchedBy(q, Supplied(_)) ==
  {t \in Range(tickets) :
     \A col \in FilterColumns : Supplied(q[col]) => t[col] = FilterValue(q, col)}

LimitOf(q) == IF q.limit = Undefined THEN DefaultLimit ELSE ParseInt(q.limit)[2]
OffsetOf(q) == IF q.offset = Undefined THEN DefaultOffset ELSE ParseInt(q.offset)[2]

\* C11 as stated: the count of a list answer is the number of tickets the
\* supplied filters match; when none matches the answer is 200 with count
\* 0 and no ticket.
C11_AsStated ==
  (IsList /\ res.code # 500)
    => /\ res.code = 200
       /\ res.body.count = Cardinality(MatchedBy(req.query, NonEmpty))
       /\ MatchedBy(req.query, NonEmpty) = {}
            => res.body.count = 0 /\ res.body.tickets = <<>>

\* C11 amended: the count of a list answer is the number of tickets in the
\* returned row set, that is of the matched tickets left after offset and
\* limit; when none matches the answer is 200 with count 0 and no ticket.
C11_CountIsRowsReturned ==
  (IsList /\ res.code # 500)
    => LET n == Cardinality(MatchedBy(req.query, NonEmpty))
       IN  /\ res.code = 200
           /\ res.body.count = Len(res.body.tickets)
           /\ res.body.count = Min(LimitOf(req.query), n - Min(OffsetOf(req.query), n))
           /\ n = 0 => res.body.count = 0 /\ res.body.tickets = <<>>

C11_Witness ==
  /\ IsList
  /\ res.code = 200
  /\ req.query.limit = Txt(<<"1">>)
  /\ Cardinality(MatchedBy(req.query, NonEmpty)) = 2
  /\ res.body.count = 1

\* The keys of a record that count as supplied, in the order the handler
\* looks at them.
SuppliedKeys(order, rec, Supplied(_)) == SelectSeq(order, LAMBDA k : Supplied(rec[k]))

ListKeyOrder == <<"status", "severity", "customer_id", "assigned_to">>
PatchKeyOrder == <<"status", "severity", "assigned_to", "resolution_time">>

PatchValue(body, key) ==
  IF key = "resolution_time" THEN ParseInt(body[key]) ELSE body[key]

\* The statement of a list or of a partial update is fixed by the keys
\* that count as supplied: one clause per such key, in the handler's
\* order, the i-th clause with placeholder $i and the key's value as i-th
\* parameter; then limit and offset (list) or the id (update) as the last
\* placeholders; as many parameters as placeholders.
BoundByPosition(Supplied(_)) ==
  /\ (IsList /\ stmts # <<>>)
       => LET s == stmts[1]
              K == SuppliedKeys(ListKeyOrder, req.query, Supplied)
              n == Len(K)
          IN  /\ s.where = [i \in 1..n |-> Clause(K[i], i)]
              /\ s.sets = <<>>
              /\ s.limitPh = n + 1 /\ s.offsetPh = n + 2
              /\ Len(s.params) = n + 2
              /\ \A i \in 1..n : s.params[i] = FilterValue(req.query, K[i])
              /\ s.params[n + 1] = ParseInt(Default(req.query.limit, Num(DefaultLimit)))
              /\ s.params[n + 2] = ParseInt(Default(req.query.offset, Num(DefaultOffset)))
  /\ (IsUpdate /\ stmts # <<>>)
       => LET s == stmts[1]
              K == SuppliedKeys(PatchKeyOrder, req.body, Present)
              n == Len(K)
          IN  /\ s.sets = [i \in 1..n |-> Clause(K[i], i)]
              /\ s.where = <<Clause("id", n + 1)>>
              /\ Len(s.params) = n + 1
              /\ \A i \in 1..n : s.params[i] = PatchValue(req.body, K[i])
              /\ s.params[n + 1] = ParseInt(req.id)

\* C12 as stated: for list and partial update the statement text depends
\* only on which keys are supplied, never on their values; every value is
\* a bound parameter, placeholders are $1..$n without gap or repeat, there
\* are n parameters and the i-th belongs to the i-th placeholder's field.
C12_AsStated == BoundByPosition(Present)

\* C12 amended: the same, where a list filter counts as supplied when its
\* value is not empty: a filter key sent with an empty value contributes no
\* clause and no parameter.
C12_ParametersBound == BoundByPosition(NonEmpty)

C12_Witness ==
  /\ IsList
  /\ res.code = 200
  /\ req.query.severity = Str("high")
  /\ req.query.assigned_to = Str("bob")
  /\ req.query.status = Undefined
  /\ Len(stmts[1].params) = 4
  /\ Len(res.body.tickets) > 0

IsStats == req.op = "GET /api/tickets/api/stats"

\* The tickets of one (status, severity) pair.
InPair(status, severity) ==
  {i \in DOMAIN tickets : tickets[i].status = status /\ tickets[i].severity = severity}

RECURSIVE SumCounts(_)
SumCounts(entries) ==
  IF entries = <<>> THEN 0 ELSE Head(entries).count[2] + SumCounts(Tail(entries))

RECURSIVE SumTimesAt(_)
SumTimesAt(I) ==
  IF I = {} THEN 0
  ELSE LET i == CHOOSE i \in I : TRUE
       IN  tickets[i].resolution_time[2] + SumTimesAt(I \ {i})

\* C13: the statistics answer has one entry per (status, severity) pair
\* that occurs among the tickets and none for another pair, in ascending
\* order of status then severity; each entry carries the number of the
\* pair's tickets and the mean of their resolution times, null when none of
\* them has one; the counts add up to the number of tickets; no ticket is
\* changed.
C13_Statistics ==
  (IsStats /\ res.code = 200)
    => LET S == res.body.statistics
       IN  /\ \A i \in DOMAIN tickets :
                \E k \in DOMAIN S :
                  S[k].status = tickets[i].status /\ S[k].severity = tickets[i].severity
           /\ \A k \in DOMAIN S :
                LET I == InPair(S[k].status, S[k].severity)
                    timed == {i \in I : tickets[i].resolution_time # Null}
                IN  /\ I # {}
                    /\ S[k].count = Num(Cardinality(I))
                    /\ timed = {} => S[k].avg_resolution_time = Null
                    /\ timed # {} =>
                         S[k].avg_resolution_time =
                           Mean(SumTimesAt(timed), Cardinality(timed))
           /\ \A k, l \in DOMAIN S :
                k < l => \/ Rank(S[k].status) < Rank(S[l].status)
                         \/ /\ S[k].status = S[l].status
                            /\ Rank(S[k].severity) < Rank(S[l].severity)
           /\ SumCounts(S) = Len(tickets)
           /\ tickets = prev

C13_Witness ==
  /\ IsStats
  /\ res.code = 200
  /\ \E k \in DOMAIN res.body.statistics :
       /\ res.body.statistics[k].count = Num(2)
       /\ res.body.statistics[k].avg_resolution_time = Mean(3, 1)

\* The path of the request below /api/tickets.
RequestPath ==
  CASE IsGet \/ IsUpdate -> <<req.id>>
    [] IsStats -> <<ApiSegment, StatsSegment>>
    [] OTHER -> <<>>

\* C14: a GET of /api/tickets/stats is handled by the statistics operation
\* and answered 200 with the statistics; it is not taken by the get-by-id
\* route with "stats" as the id.
C14_StatsDispatched ==
  (~Idle /\ ~IsUpdate /\ RequestPath = <<StatsSegment>>)
    => /\ IsStats
       /\ res.code = 200
       /\ "statistics" \in DOMAIN res.body

(***************************************************************************)
(* Properties of the health and status routes.                             *)
(***************************************************************************)
IsHealth == req.op = "GET /health"
IsHealthFull == req.op = "GET /health/full"
IsStatusCheck == req.op = "GET /api/status"

\* C15: the liveness check is answered 200 with status healthy and the
\* uptime of the process, whatever the store and the external service do,
\* without a statement to the store and without a fetch; it can be
\* answered whenever a request can be taken.
C15_LivenessCheck ==
  /\ IsHealth
       => /\ res.code = 200
          /\ res.body.status = "healthy"
          /\ res.body.uptime * 1000 = uptime
          /\ stmts = <<>>
          /\ fetches = <<>>
  /\ Idle => ENABLED GetHealth

C15_Witness ==
  /\ IsHealth
  /\ res.code = 200
  /\ service = "unreachable"
  /\ uptime > 0
  /\ calls # <<>>

\* C16: in the full health check the aggregate status is healthy and the
\* code 200 only if the store sub-check is healthy; whenever the store
\* sub-check is unhealthy (the read threw or returned no row) the aggregate
\* status is degraded and the code 503.
C16_StoreGatesAggregate ==
  IsHealthFull
    => /\ (res.code = 200 \/ res.body.status = "healthy")
            => res.body.checks.database = "healthy"
       /\ res.body.checks.database = "unhealthy"
            => res.body.status = "degraded" /\ res.code = 503

\* C17: in the full health check, when the store sub-check is healthy the
\* answer is 200 with aggregate status healthy however the external probe
\* ends (OK response, non-OK response, network error, timeout); the
\* external sub-check is healthy for an OK response and unhealthy
\* otherwise, and nothing else in the answer depends on the probe.
C17_ExternalCheckAdvisory ==
  (IsHealthFull /\ res.body.checks.database = "healthy")
    => /\ res.code = 200
       /\ res.body.status = "healthy"
       /\ res.body.checks.externalApi =
            (IF fetches[1].outcome = Responded(200) THEN "healthy" ELSE "unhealthy")

C17_Witness ==
  /\ IsHealthFull
  /\ res.code = 200
  /\ res.body.checks.database = "healthy"
  /\ res.body.checks.externalApi = "unhealthy"
  /\ fetches[1].outcome = AbortError

\* C18: whatever the order in which concurrent status checks complete, the
\* history holds at most 20 entries, each entry one completion newer than
\* the entry after it, the first being the latest completion: the 20 most
\* recent outcomes, the oldest gone when a 21st arrives.
C18_BoundedNewestFirst ==
  /\ Len(apiHistory) <= 20
  /\ \A i \in 1..(Len(apiHistory) - 1) :
       apiHistory[i].completion = apiHistory[i + 1].completion + 1
  /\ apiHistory # <<>> =>
       apiHistory[Len(apiHistory)].completion =
         (IF Completed > 20 THEN Completed - 19 ELSE 1)
  /\ (IsStatusCheck /\ Len(hprev) = 20) =>
       /\ Len(apiHistory) = 20
       /\ \A i \in 2..20 : apiHistory[i] = hprev[i - 1]

C18_Witness ==
  /\ IsStatusCheck
  /\ Len(hprev) = 20
  /\ hprev[20].completion = 1
  /\ apiHistory[20].completion = 2
  /\ apiHistory[1].completion = 21
  /\ calls # <<>>

\* C19: a status check that is answered has put exactly one entry in front
\* of the history, whether its probe got an OK response, a non-OK response,
\* a network error or a timeout, with the success flag true for an OK
\* response only; no other step changes the history: not the history read,
\* the full health check, the notification or the status-code test.
C19_OneEntryPerCheck ==
  /\ IsStatusCheck
       => /\ Len(apiHistory) = Min(Len(hprev) + 1, 20)
          /\ \A i \in 2..Len(apiHistory) : apiHistory[i] = hprev[i - 1]
          /\ apiHistory[1].status = res.body.status
          /\ apiHistory[1].success = (fetches[1].outcome = Responded(200))
  /\ ~IsStatusCheck => apiHistory = hprev

C19_Witness ==
  /\ IsStatusCheck
  /\ res.code = 503
  /\ fetches[1].outcome = AbortError
  /\ Len(hprev) = 1
  /\ hprev[1].success
  /\ Len(apiHistory) = 2
  /\ ~apiHistory[1].success

\* What an answer says of the failed exchange, and what the same route
\* says of a network error.
FailureReported ==
  IF IsHealthFull THEN res.body.checks.externalApi ELSE res.body.error

NetworkFailureReported ==
  IF IsHealthFull THEN "unhealthy" ELSE FetchError.message

BoundedRoutes ==
  {"GET /api/status", "GET /health/full", "POST /api/status/notify/:ticketId"}

\* C20: the probe of the status check and of the full health check and the
\* notification are bound by the configured timeout (5000 by default): no
\* such request waits for the external service longer than that; an
\* exchange the service has not completed by then is abandoned at that
\* time, and the answer reports it as a timeout, which is not what it
\* reports for a network error.
C20_TimeoutBound ==
  /\ \A i \in DOMAIN calls :
       calls[i].op \in BoundedRoutes => uptime - calls[i].since <= Config.apiTimeout
  /\ (req.op \in BoundedRoutes /\ fetches # <<>>)
       => LET x == fetches[1]
          IN  /\ x.until - x.since <= Config.apiTimeout
              /\ x.outcome = AbortError
                   => /\ x.until - x.since = Config.apiTimeout
                      /\ FailureReported # NetworkFailureReported

(***************************************************************************)
(* Properties of the storage routes.                                       *)
(***************************************************************************)
StorageOps ==
  {"GET /api/storage/test-connection", "GET /api/storage/files",
   "POST /api/storage/files", "GET /api/storage/files/:key",
   "DELETE /api/storage/files/:key"}

IsStorage == req.op \in StorageOps

Missing(v) == v = Undefined \/ v = Str("")

\* One of the access key id, the secret key and the bucket name is missing.
StorageUnconfigured ==
  \/ Missing(env.AWS_ACCESS_KEY_ID)
  \/ Missing(env.AWS_SECRET_ACCESS_KEY)
  \/ Missing(env.AWS_S3_BUCKET_NAME)

\* C21: while one of the three storage settings is missing, every storage
\* operation is answered 503 "Service Unavailable", not 400 and not 500,
\* no command is sent to the bucket and the bucket stays as it was; a
\* request outside the storage routes is not answered 503.
C21_UnavailableWhenUnconfigured ==
  StorageUnconfigured
    => /\ IsStorage
            => /\ res.code = 503
               /\ res.body.error = "Service Unavailable"
       /\ s3.sent = <<>>
       /\ s3.objects = {}
       /\ (~Idle /\ ~IsStorage) => res.code = 200

\* An upload without a filename, on a service whose secret key is missing,
\* has been answered 503.
C21_Witness ==
  /\ Missing(env.AWS_SECRET_ACCESS_KEY)
  /\ ~Missing(env.AWS_ACCESS_KEY_ID)
  /\ ~Missing(env.AWS_S3_BUCKET_NAME)
  /\ req.op = "POST /api/storage/files"
  /\ req.body.filename = Undefined
  /\ res.code = 503

(***************************************************************************)
(* Properties of the process lifecycle.                                    *)
(***************************************************************************)
NonZero(exit) == exit # Null /\ exit # Num(0)

HasServed == proc.state \in {"Serving", "Draining", "Terminated"}

\* C22: the process serves only after the connectivity probe has succeeded
\* against a reachable store and then the schema initialization has
\* succeeded, in that order; a failure of either ends in FailedStartup
\* with a non-zero exit status, which is terminal and entered only from
\* Starting or SchemaValidating.
C22_ServingAfterValidation ==
  /\ [](HasServed => /\ proc.probe = "succeeded"
                     /\ proc.store = "reachable"
                     /\ proc.schemaInit = "succeeded"
                     /\ schema = Initialized)
  /\ [](proc.schemaInit # "pending" => proc.probe = "succeeded")
  /\ []((proc.probe = "failed" \/ proc.schemaInit = "failed" \/ proc.store = "unreachable")
          => proc.state = "FailedStartup")
  /\ [](proc.state = "FailedStartup" => NonZero(proc.exit))
  /\ [][proc.state = "FailedStartup" => proc' = proc]_vars
  /\ [][(proc'.state = "FailedStartup" /\ proc.state # "FailedStartup")
          => proc.state \in {"Starting", "SchemaValidating"}]_vars
  /\ [][(proc'.state = "Serving" /\ proc.state # "Serving")
          => proc.state = "SchemaValidating"]_vars
  /\ [][(proc'.state = "SchemaValidating" /\ proc.state # "SchemaValidating")
          => proc.state = "Starting"]_vars

\* The process serves on a database it has just initialized.
C22_Witness ==
  /\ proc.state = "Serving"
  /\ proc.inflight > 0
  /\ schema = Initialized

Signalled == proc.signal # "none"

\* C23: once an interrupt or a terminate signal has been received, no new
\* connection is accepted and the process eventually reaches Terminated:
\* with exit status 0 when every request in flight had completed and the
\* pool had been closed, with exit status 1 when the drain timeout of 10
\* units had elapsed first, and never with status 1 before the 10 units
\* have elapsed.
C23_DrainThenTerminate ==
  /\ [](Signalled => /\ proc.signal \in Signals
                     /\ ~proc.accepting
                     /\ proc.state \in {"Draining", "Terminated"}
                     /\ proc.draining <= DrainTimeout)
  /\ [][Signalled => proc'.inflight <= proc.inflight]_vars
  /\ []((Signalled /\ proc.state = "Terminated")
          => \/ /\ proc.exit = Num(0)
                /\ proc.inflight = 0
                /\ pool.ended
             \/ /\ proc.exit = Num(1)
                /\ proc.draining = DrainTimeout)
  /\ [][(Signalled /\ proc.inflight = 0 /\ pool.ended /\ proc.draining < DrainTimeout
           /\ proc'.state = "Terminated")
          => proc'.exit = Num(0)]_vars
  /\ (proc.state = "Draining" ~> proc.state = "Terminated")

\* The drain timeout has ended a drain with a request still in flight.
C23_Witness ==
  /\ proc.signal = "SIGTERM"
  /\ proc.state = "Terminated"
  /\ proc.exit = Num(1)
  /\ proc.inflight > 0

\* C24: an uncaught fault while serving takes the process to Terminated
\* with a non-zero exit status at once: it is never Draining, no drain
\* time passes, the pool is not closed first and the requests in flight
\* are still in flight.
C24_FaultIsFatal ==
  proc.fault
    => /\ proc.state = "Terminated"
       /\ NonZero(proc.exit)
       /\ proc.signal = "none"
       /\ proc.draining = 0
       /\ ~pool.ended

\* The process has been ended by a fault with a request in flight.
C24_Witness ==
  /\ proc.fault
  /\ proc.state = "Terminated"
  /\ proc.inflight > 0

(***************************************************************************)
(* Properties of the schema initialization.                                *)
(***************************************************************************)
IsSchemaInit == req.op = "initializeDatabase"

TablesNamed(name) == {i \in 1..Len(schema.tables) : schema.tables[i] = name}
IndexesOn(column) ==
  {i \in 1..Len(schema.indexes) :
     /\ schema.indexes[i].table = "support_tickets"
     /\ schema.indexes[i].column = column}

OneTableTwoIndexes ==
  /\ Cardinality(TablesNamed("support_tickets")) = 1
  /\ Cardinality(IndexesOn("status")) = 1
  /\ Cardinality(IndexesOn("severity")) = 1
  /\ Len(schema.tables) = 1
  /\ Len(schema.indexes) = 2

\* C26: a run of the schema initialization on an initialized database
\* raises no error of its own (it throws only where the store failed it),
\* leaves the tickets as they were and leaves one ticket table with one
\* index on status and one on severity; so does every run that completes;
\* and after every run, thrown or not, no client stays checked out.
C26_SchemaInitIdempotent ==
  IsSchemaInit
    => /\ pool.borrowed = 0
       /\ tickets = prev
       /\ req.before = Initialized
            => /\ OneTableTwoIndexes
               /\ res.threw <=> req.failAt <= Len(SchemaStatements)
       /\ ~res.threw => OneTableTwoIndexes

\* The initialization has run without error on an initialized database
\* that holds tickets.
C26_Witness ==
  /\ IsSchemaInit
  /\ req.before = Initialized
  /\ ~res.threw
  /\ Len(tickets) > 0

(***************************************************************************)
(* Properties of the ticket identifiers.                                   *)
(***************************************************************************)
IsSeed == req.op = "node scripts/seed.js"

\* Two rows are the same ticket: they agree on what no operation changes.
SameTicket(a, b) ==
  /\ a.title = b.title
  /\ a.description = b.description
  /\ a.customer_id = b.customer_id
  /\ a.created_at = b.created_at

\* C27: the ids of the stored tickets are pairwise distinct, and no create,
\* update or run of the seed script gives the id of a stored ticket to a
\* different ticket or changes the id of a ticket.
C27_IdsNeverReused ==
  /\ [](\A i, j \in 1..Len(tickets) : i # j => tickets[i].id # tickets[j].id)
  /\ [][\A i \in 1..Len(tickets), j \in 1..Len(tickets') :
          tickets'[j].id = tickets[i].id => SameTicket(tickets[i], tickets'[j])]_vars
  /\ [][(IsUpdate' /\ ~Idle')
          => /\ Len(tickets') = Len(tickets)
             /\ \A i \in 1..Len(tickets) : tickets'[i].id = tickets[i].id]_vars

(***************************************************************************)
(* Properties of the answers to a store failure.                           *)
(***************************************************************************)
IsMetrics == req.op = "GET /metrics"

StoreOps ==
  {"GET /api/tickets", "GET /api/tickets/:id", "POST /api/tickets",
   "PATCH /api/tickets/:id", "GET /api/tickets/api/stats", "GET /metrics"}

\* The message each operation answers a store failure with.
GenericMessage(op) ==
  CASE op = "GET /api/tickets" -> "Failed to list tickets"
    [] op = "GET /api/tickets/:id" -> "Failed to get ticket"
    [] op = "POST /api/tickets" -> "Failed to create ticket"
    [] op = "PATCH /api/tickets/:id" -> "Failed to update ticket"
    [] op = "GET /api/tickets/api/stats" -> "Failed to get statistics"
    [] op = "GET /metrics" -> "Failed to fetch metrics"

\* Every text the store can fail a statement of the request with.
RawErrorTexts ==
  {QueryError(stmts[i], dbOk).message : i \in DOMAIN stmts, dbOk \in BOOLEAN}

\* C28: a ticket operation or the metrics summary whose statement the store
\* rejects is answered 500, and every 500 of these operations carries the
\* one message of its operation and nothing else, whatever the store's
\* error was: the text of the store's error is not in the payload.
C28_GenericStoreFailure ==
  (req.op \in StoreOps)
    => /\ (\E i \in DOMAIN stmts : StatementFails(stmts[i])) => res.code = 500
       /\ res.code = 500
            => /\ res.body = Error(GenericMessage(req.op))
               /\ res.body.error \notin RawErrorTexts
               /\ tickets = prev

\* The metrics summary has been answered 500 on an unreachable store.
C28_Witness ==
  /\ IsMetrics
  /\ res.code = 500
  /\ ~StatementFails(stmts[1])
  /\ Len(tickets) > 0

(***************************************************************************)
(* Properties of the effect of a partial update.                           *)
(***************************************************************************)
SuppliedToPatch(body) == {k \in Range(PatchKeyOrder) : body[k] # Undefined}

\* C29: an accepted partial update changes one row, the row of the id it
\* was given, and on that row only the fields its body supplies among
\* status, severity, assigned_to and resolution_time, which take the
\* supplied values, and updated_at; every other field of the row and every
\* other row are as before.
C29_UpdateFrame ==
  (IsUpdate /\ res.code = 200)
    => LET target == res.body.id
           supplied == SuppliedToPatch(req.body)
       IN  /\ WellFormedId(req.id) => target = IdNumber(req.id)
           /\ Len(tickets) = Len(prev)
           /\ Cardinality({i \in DOMAIN prev : prev[i].id = target}) = 1
           /\ \A i \in DOMAIN prev :
                IF prev[i].id = target
                THEN /\ \A c \in DOMAIN prev[i] \ (supplied \cup {"updated_at"}) :
                          tickets[i][c] = prev[i][c]
                     /\ \A k \in supplied : tickets[i][k] = PatchValue(req.body, k)
                ELSE tickets[i] = prev[i]

\* An update of status and resolution time has been accepted for one of
\* two tickets, the one with a severity, an assignee and a customer.
C29_Witness ==
  /\ IsUpdate
  /\ res.code = 200
  /\ Len(tickets) = 2
  /\ SuppliedToPatch(req.body) = {"status", "resolution_time"}
  /\ res.body.severity = Str("high")
  /\ res.body.assigned_to = Str("bob")
  /\ res.body.customer_id = Num(7)

(***************************************************************************)
(* Properties of concurrent partial updates.                               *)
(***************************************************************************)
\* The committed statements that wrote column c of the row with this id,
\* by their place in the commit order.
WritersOf(id, c) ==
  {n \in DOMAIN updates.committed :
     /\ Bound(updates.committed[n], updates.committed[n].where[1].ph) = id
     /\ \E i \in DOMAIN updates.committed[n].sets : updates.committed[n].sets[i].col = c}

LastWriter(id, c) == CHOOSE n \in WritersOf(id, c) : \A m \in WritersOf(id, c) : m <= n

WrittenValue(stmt, c) ==
  Bound(stmt, stmt.sets[CHOOSE i \in DOMAIN stmt.sets : stmt.sets[i].col = c].ph)

\* C30: whatever the order in which the store commits the updates handed
\* to it concurrently, every field of every row holds the value of the
\* last committed update that set it, and the value it had before them
\* when none did; each update is one statement, and its answer is its row
\* as its own commit left it.
C30_CommitOrderDecides ==
  /\ Len(tickets) = Len(updates.base)
  /\ \A i \in DOMAIN tickets :
       \A c \in Range(PatchKeyOrder) \cup {"id", "title", "created_at"} :
         IF WritersOf(tickets[i].id, c) = {}
         THEN tickets[i][c] = updates.base[i][c]
         ELSE tickets[i][c] =
                WrittenValue(updates.committed[LastWriter(tickets[i].id, c)], c)
  /\ (IsUpdate /\ res.code = 200)
       => /\ Len(stmts) = 1
          /\ stmts[1] = updates.committed[Len(updates.committed)]
          /\ RowsWithId(tickets, res.body.id) = {res.body}

\* Two updates of the status of one ticket have been committed: the status
\* is that of the second, and the assignee, which only the first set, is
\* held.
C30_Witness ==
  /\ Len(updates.committed) = 2
  /\ updates.pending = <<>>
  /\ WritersOf(Num(1), "status") = {1, 2}
  /\ WritersOf(Num(1), "assigned_to") = {1}
  /\ tickets[1].status = Str("resolved")
  /\ tickets[1].assigned_to = Str("bob")
  /\ updates.base[1].status = Str("open")

\* The request is one whose handler raised a fault: the throw of
\* GET /debug/error, or the read of an unparsed body at the top of an async
\* handler that was reached.
HandlerFaulted(r) ==
  \/ r.op = "GET /debug/error"
  \/ r.op = "POST /api/status/notify/:ticketId" /\ r.body = Undefined
  \/ r.op = "POST /api/storage/files" /\ r.body = Undefined /\ s3Client # Null

\* A response that is complete structured data for an error.
WellFormedError(response) ==
  /\ response.code = 500
  /\ DOMAIN response.body = {"error", "message"}
  /\ response.body.error # ""
  /\ response.body.message # ""

====
